---- MODULE Spec2Model ----
(***************************************************************************)
(* Model of sitq: the SQLite task store (src/sitq/backends/sqlite.py), the *)
(* producer API (src/sitq/queue.py) and the worker (src/sitq/worker.py).   *)
(*                                                                         *)
(* Reading notes.                                                          *)
(*  - worker.py, sqlite.py and queue.py carry indentation damage (some     *)
(*    methods start at column 0); they are read as the methods of their    *)
(*    class, which is how every caller and test uses them.                 *)
(*  - sqlite.py builds validation chains with validate(...) and never      *)
(*    calls .validate() on them, so no chain rejects an argument; two of   *)
(*    the chained checks (is_integer, is_non_empty_string) are not in      *)
(*    validation.py as given.  The chains are read as having no effect,    *)
(*    as every test of the backend does, and the model only issues         *)
(*    well-typed arguments (non-empty ids, positive max_items,             *)
(*    timezone-aware instants).                                            *)
(*  - Time is a discrete clock of ticks.  A datetime is a wall-clock value *)
(*    loc together with a UTC offset off; the instant it denotes is        *)
(*    loc - off.  The store keeps datetime.isoformat() text, and SQLite    *)
(*    compares that text bytewise.                                         *)
(*  - Every operation is written over the backend variables (bvars) or the *)
(*    worker variables (wvars); a specification's next-state relation      *)
(*    frames the group an operation does not mention.                      *)
(***************************************************************************)
EXTENDS Integers, Sequences, FiniteSets, TLC

\* ---------------------------------------------------------------- bounds
MaxClock == 2
MaxItems == 2
MaxConcurrency == 2
\* the clock readings of the liveness specification
LiveClock == 1
\* the clock readings of the task queue specification
QueueClock == 3
\* the largest timeout, in seconds, a consumer passes to get_result
MaxTimeout == 1
\* the clock readings of the producer specification
ProducerClock == 1
\* the clock readings of the facade specification
SyncClock == 1
\* the clock readings of SpecDecode
DecodeClock == 1
\* the largest max_attempts of retry_async
MaxAttempts == 3

TaskIds == {1, 2}
\* every task id of the model: those and the further ones of the five-task
\* barrier scenario
AllTaskIds == {1, 2, 3, 4, 5}
Workers == {1, 2}
\* asyncio.sleep(0.5): the polling cadence is one tick, a second is two
SleepTicks == 1
TicksPerSecond == 2
\* Worker(poll_interval=...): half a second, the default of one second, two
\* seconds
PollIntervalDefault == TicksPerSecond
PollIntervals == {SleepTicks, PollIntervalDefault, 2 * TicksPerSecond}
\* UTC offsets of producer-supplied etas, in ticks (an offset spans several
\* ticks, as a timezone offset spans many clock readings)
Offsets == {-2, 0, 2}

NULL == <<>>
Some(x) == <<x>>

\* ------------------------------------------------------------- datetimes
DT(loc, off) == [loc |-> loc, off |-> off]
Instant(dt) == dt.loc - dt.off
\* datetime.now(timezone.utc) at clock reading c
UtcNow(c) == DT(c, 0)
\* the etas a producer may pass: any wall-clock reading with any offset
Etas == {DT(l, o) : l \in 0..MaxClock, o \in Offsets}

\* datetime.isoformat(): "<wall clock><sign>HH:MM".  The text is modelled by
\* the three parts that decide a bytewise comparison: the fixed-width
\* wall-clock prefix, the sign character ('+' = 0x2B sorts before
\* '-' = 0x2D; offset zero prints as "+00:00") and the offset digits.
IsoFormat(dt) ==
    <<dt.loc, IF dt.off >= 0 THEN 0 ELSE 1, IF dt.off >= 0 THEN dt.off ELSE -dt.off>>
\* datetime.fromisoformat()
FromIso(txt) == DT(txt[1], IF txt[2] = 0 THEN txt[3] ELSE -txt[3])

\* SQLite BINARY collation on two isoformat texts
TextLT(a, b) ==
    \/ a[1] < b[1]
    \/ a[1] = b[1] /\ a[2] < b[2]
    \/ a[1] = b[1] /\ a[2] = b[2] /\ a[3] < b[3]
TextLE(a, b) == a = b \/ TextLT(a, b)

\* ------------------------------------------------------ values and errors
\* what a callable may return, and the codec (cloudpickle) on it
ReturnValues == {"r1", "r2"}
serialize_result(x) == <<"pickle", x>>
deserialize_result(b) == b[2]
\* the bytes mark_success is given
Values == {serialize_result(x) : x \in ReturnValues}

\* what a callable may raise; str(exception) is its message
Exceptions == {[cls |-> "ValueError", msg |-> "boom"],
               [cls |-> "KeyError", msg |-> "missing"]}
Str(e) == e.msg
\* traceback.format_exc() inside an except block: a header line, then the
\* exception line
FormatExc(e) == <<"Traceback (most recent call last):", e.cls, e.msg>>
\* the error texts mark_failure is given
Errors == {Str(e) : e \in Exceptions}

\* how a call ends: it returns a value or raises an error of class cls whose
\* context names the operation and whose cause is the class of the error it
\* wraps
Returned(v) ==
    [kind |-> "return", cls |-> "", operation |-> "", cause |-> "", context |-> "",
     val |-> v]
Raised(cls, op, cause) ==
    [kind |-> "raise", cls |-> cls, operation |-> op, cause |-> cause,
     context |-> cause, val |-> NULL]

\* the keyword parameters of the __init__ of each error class
Accepts(cls) ==
    CASE cls = "TaskQueueError" -> {"task_id", "cause", "context"}
      [] cls = "BackendError" -> {"operation", "backend_type", "cause", "context"}
      [] cls = "WorkerError" -> {"task_id", "worker_id", "cause", "context"}
      [] cls = "SyncTaskQueueError" -> {"task_id", "operation", "cause", "context"}
      [] cls = "ConnectionError" -> {"backend_type", "connection_details", "cause"}
      [] cls = "TaskExecutionError" ->
             {"task_id", "function_name", "execution_time", "cause"}

\* "raise Cls(message, kw=..., cause=e) from e" inside "except Exception as
\* e": a keyword that __init__ does not take makes the construction itself
\* raise TypeError, whose implicit __context__ is e and which has no cause
RaiseFrom(cls, kw, op, e) ==
    IF kw \subseteq Accepts(cls)
    THEN Raised(cls, op, e)
    ELSE [kind |-> "raise", cls |-> "TypeError", operation |-> "", cause |-> "",
          context |-> e, val |-> NULL]

\* ----------------------------------------------------------------- state
VARIABLES
    clock,             \* the wall clock (UTC ticks)
    is_memory,         \* SQLiteBackend._is_memory
    initialized,       \* SQLiteBackend._initialized
    shared_connection, \* SQLiteBackend._shared_connection is not None
    schema,            \* the tasks table exists in the database
    rows,              \* the tasks table: task_id -> row
    resv,              \* per caller: the reserve call in progress (st, the
                       \* ids selected, and the arguments now and max_items)
    retCount,          \* history: how many reserve calls returned each id
    everReserved,      \* history: ids whose row has been in status reserved
    observed,          \* history: one terminal Result that get_result returned
    max_concurrency,   \* Worker.max_concurrency
    poll_interval,     \* Worker.poll_interval, in ticks
    sleeping,          \* per worker: the delay of the polling loop's
                       \* asyncio.sleep in progress, 0 when it is not asleep
    reserved_func,     \* per task: ReservedTask.func, the payload the worker
                       \* got from reserve ("" before that)
    running,           \* Worker._running
    shutdown_event,    \* Worker._shutdown_event.is_set()
    pc,                \* where start() / _polling_loop() stands
    stopPc,            \* where stop() stands
    tasks,             \* Worker._tasks, the tracked execution handles
    gathered,          \* the handles stop() passed to asyncio.gather
    semaphore,         \* permits left in Worker._semaphore
    exec,              \* per task: where its _execute_task stands
    wrap,              \* per task: where its _execute_with_semaphore stands
    outcome,           \* per task: how its callable ended
    owner,             \* per task: the worker whose reserve returned it
    failCall,          \* history: arguments of the worker's mark_failure call
    qpc,               \* where the consumer's TaskQueue.get_result stands
    qcall,             \* its arguments task_id and timeout
    qstart,            \* its start = _now()
    qwake,             \* the clock reading at which its sleep is over
    qresult,           \* what its last Backend.get_result returned
    qret,              \* how the call ended: the value returned or the error
    bret,              \* how a client's last direct Backend call ended
    started,           \* SyncTaskQueue._started
    loop,              \* SyncTaskQueue._loop: none, running or stopped
    thread,            \* SyncTaskQueue._thread: none, alive or joined
    spc,               \* where the synchronous caller's call stands
    scall,             \* the facade method it called, with its arguments
    sret,              \* how that call ended
    max_attempts,      \* retry_async(max_attempts=...)
    retryable_exceptions, \* retry_async(retryable_exceptions=...), None or a list
    effects,           \* what the decorated function does at its 1st, 2nd, ...
                       \* invocation: return, or raise an exception of a class
    attempt,           \* the loop variable of "for attempt in range(max_attempts)"
    calls,             \* history: how often the decorated function was invoked
    rpc,               \* where the call of the wrapper stands
    rret               \* how the call of the wrapper ended

bvars == <<clock, is_memory, initialized, shared_connection, schema, rows, resv,
           retCount, everReserved, observed>>
wvars == <<max_concurrency, poll_interval, sleeping, reserved_func, running, shutdown_event, pc, stopPc, tasks, gathered,
           semaphore, exec, wrap, outcome, owner, failCall>>
qvars == <<qpc, qcall, qstart, qwake, qresult, qret, bret>>
svars == <<started, loop, thread, spc, scall, sret>>
rvars == <<max_attempts, retryable_exceptions, effects, attempt, calls, rpc, rret>>
vars == <<clock, is_memory, initialized, shared_connection, schema, rows, resv,
          retCount, everReserved, observed, max_concurrency, poll_interval,
          sleeping, reserved_func, running,
          shutdown_event, pc, stopPc, tasks, gathered, semaphore, exec, wrap,
          outcome, owner, failCall, qpc, qcall, qstart, qwake, qresult, qret,
          bret, started, loop, thread, spc, scall, sret, max_attempts,
          retryable_exceptions, effects, attempt, calls, rpc, rret>>

IdleResv == [st |-> "idle", ids |-> {}, now |-> NULL, n |-> 0]

\* ------------------------------------------------------ connection set-up
\* initialize() followed by _with_connection(): whether the operation then
\* finds the tasks table.  initialize() creates the table only while
\* _initialized is false; an in-memory database lives and dies with the
\* shared connection, so a connection opened after close() is an empty
\* database and, with _initialized already true, has no tasks table.
SchemaAfterOpen ==
    IF is_memory /\ ~shared_connection THEN ~initialized ELSE schema \/ ~initialized

\* the connection variables after any operation's prelude
Opened ==
    /\ initialized' = TRUE
    /\ shared_connection' = is_memory
    /\ schema' = SchemaAfterOpen

\* file databases: a write statement of another connection holds the write
\* lock from its UPDATE until its commit; the shared in-memory connection
\* has a single transaction that every coroutine sees.
WriteFree(c) == is_memory \/ \A d \in Workers \ {c} : resv[d].st # "done"
NoWriter == is_memory \/ \A d \in Workers : resv[d].st # "done"

\* ------------------------------------------------------------ the table
EmptyRows == [t \in {} |-> NULL]

\* Task.func, the payload column: the pickled envelope that
\* serialize_task_envelope builds, or what another producer stored there:
\* bytes that do not unpickle, a pickled object that is no dict, a dict
\* without the keys func, args, kwargs, an envelope whose func is no callable
ValidEnvelope == "envelope"
Payloads == {ValidEnvelope, "corrupt", "not_a_mapping", "missing_keys", "not_callable"}

\* the row enqueue() inserts: created_at and available_at as isoformat text
NewRowWith(avail, created, func) ==
    [status        |-> "pending",
     func          |-> func,
     created_at    |-> IsoFormat(created),
     available_at  |-> IsoFormat(avail),
     started_at    |-> NULL,
     completed_at  |-> NULL,
     result_data   |-> NULL,
     error_message |-> NULL,
     traceback     |-> NULL]

\* the row of a task that TaskQueue.enqueue built
NewRow(avail, created) == NewRowWith(avail, created, ValidEnvelope)

\* INSERT OR REPLACE INTO tasks: a row with the same task_id is replaced
InsertOrReplaceRows(rws, t, row) ==
    [u \in DOMAIN rws \cup {t} |-> IF u = t THEN row ELSE rws[u]]

\* INSERT INTO tasks (...) VALUES (...): task_id is the PRIMARY KEY, so the
\* statement fails on a task_id the table holds and leaves the table as it is
InsertRows(rws, t, row) ==
    IF t \in DOMAIN rws
    THEN rws
    ELSE [u \in DOMAIN rws \cup {t} |-> IF u = t THEN row ELSE rws[u]]

\* a sub-select that also takes rows already handed out
StatusPendingOrReserved(r) == r.status \in {"pending", "reserved"}

\* WHERE status = 'pending'
StatusPending(r) == r.status = "pending"

\* WHERE status = 'pending' AND available_at <= :now  (text comparison)
Eligible(rws, nowTxt) ==
    {t \in DOMAIN rws :
        StatusPending(rws[t]) /\ TextLE(rws[t].available_at, nowTxt)}

\* ORDER BY available_at, created_at  (text comparison)
OrderBefore(a, b) ==
    \/ TextLT(a.available_at, b.available_at)
    \/ a.available_at = b.available_at /\ TextLT(a.created_at, b.created_at)

Min(a, b) == IF a <= b THEN a ELSE b

\* the id sets the sub-select ... ORDER BY ... LIMIT :n may produce; rows
\* with equal sort keys are taken in an order SQL leaves open
Selections(rws, n, nowTxt) ==
    LET E == Eligible(rws, nowTxt)
        k == Min(n, Cardinality(E))
    IN {S \in SUBSET E :
          /\ Cardinality(S) = k
          /\ \A s \in S : \A u \in E \ S : ~OrderBefore(rws[u], rws[s])}

\* a reserve that only selects: SELECT ... without the UPDATE
ReserveRowsSelectOnly(rws, S, nowTxt) == rws

\* UPDATE tasks SET status = 'reserved', started_at = :now WHERE task_id IN S
ReserveRows(rws, S, nowTxt) ==
    [t \in DOMAIN rws |->
        IF t \in S
        THEN [rws[t] EXCEPT !.status = "reserved", !.started_at = Some(nowTxt)]
        ELSE rws[t]]

\* UPDATE tasks SET status = 'completed', result_data, completed_at
\* WHERE task_id = :id
SuccessRows(rws, t, v, nowTxt) ==
    [u \in DOMAIN rws |->
        IF u = t
        THEN [rws[u] EXCEPT !.status = "completed",
                            !.result_data = Some(v),
                            !.completed_at = Some(nowTxt)]
        ELSE rws[u]]

\* UPDATE tasks SET status = 'failed', error_message, traceback, completed_at
\* WHERE task_id = :id
FailureRows(rws, t, e, tb, nowTxt) ==
    [u \in DOMAIN rws |->
        IF u = t
        THEN [rws[u] EXCEPT !.status = "failed",
                            !.error_message = Some(e),
                            !.traceback = Some(tb),
                            !.completed_at = Some(nowTxt)]
        ELSE rws[u]]

OptFromIso(col) == IF col = NULL THEN NULL ELSE Some(FromIso(col[1]))

\* a get_result that reports every row, terminal or not
ResultOfAnyRow(rws, t) ==
    IF t \notin DOMAIN rws THEN NULL
    ELSE Some([task_id |-> t,
               status |-> IF rws[t].status = "completed" THEN "success" ELSE "failed",
               value |-> rws[t].result_data, error |-> rws[t].error_message,
               traceback |-> rws[t].traceback,
               enqueued_at |-> FromIso(rws[t].created_at),
               started_at |-> NULL,
               finished_at |-> NULL])

\* what get_result() builds from the selected row
ResultOf(rws, t) ==
    IF t \notin DOMAIN rws THEN NULL
    ELSE IF rws[t].status = "completed"
    THEN Some([task_id |-> t, status |-> "success",
               value |-> rws[t].result_data, error |-> NULL, traceback |-> NULL,
               enqueued_at |-> FromIso(rws[t].created_at),
               started_at |-> OptFromIso(rws[t].started_at),
               finished_at |-> OptFromIso(rws[t].completed_at)])
    ELSE IF rws[t].status = "failed"
    THEN Some([task_id |-> t, status |-> "failed",
               value |-> NULL, error |-> rws[t].error_message,
               traceback |-> rws[t].traceback,
               enqueued_at |-> FromIso(rws[t].created_at),
               started_at |-> OptFromIso(rws[t].started_at),
               finished_at |-> OptFromIso(rws[t].completed_at)])
    ELSE NULL

\* the part of a Result a consumer compares: status with value / error
Seen(res) ==
    [task_id |-> res.task_id, status |-> res.status,
     value |-> res.value, error |-> res.error]

\* ----------------------------------------------------- backend operations
\* SQLiteBackend.connect()
connect ==
    /\ IF initialized
       THEN UNCHANGED <<initialized, shared_connection, schema>>
       ELSE Opened
    /\ UNCHANGED <<clock, is_memory, rows, resv, retCount, everReserved, observed>>

\* SQLiteBackend.close(): closes the shared in-memory connection, and with it
\* the in-memory database (a statement still to commit on it then fails); a
\* file backend holds no connection to close
close ==
    /\ IF is_memory /\ shared_connection
       THEN /\ shared_connection' = FALSE
            /\ schema' = FALSE
            /\ rows' = EmptyRows
            /\ resv' = [c \in Workers |->
                          IF resv[c].st = "done"
                          THEN [resv[c] EXCEPT !.st = "err", !.ids = {}]
                          ELSE resv[c]]
       ELSE UNCHANGED <<shared_connection, schema, rows, resv>>
    /\ UNCHANGED <<clock, is_memory, initialized, retCount, everReserved, observed>>

\* SQLiteBackend.enqueue(task) for the Task that TaskQueue.enqueue builds:
\* available_at = eta if eta else _now(), created_at = now (UTC).  A second
\* row with the same task_id violates the primary key: BackendError.
enqueue_row(t, row) ==
    /\ NoWriter
    /\ Opened
    /\ rows' = IF SchemaAfterOpen THEN InsertRows(rows, t, row) ELSE rows
    /\ UNCHANGED <<clock, is_memory, resv, retCount, everReserved, observed>>

enqueue_task(t, avail, created) == enqueue_row(t, NewRow(avail, created))

\* the same for a Task built by another producer, with any payload in func
enqueue_payload(t, func) ==
    enqueue_row(t, NewRowWith(UtcNow(clock), UtcNow(clock), func))

\* the same for a task built at the current clock reading
enqueue(t, eta) ==
    enqueue_task(t, IF eta = NULL THEN UtcNow(clock) ELSE eta[1], UtcNow(clock))

\* SQLiteBackend.reserve(max_items, now), first half: the UPDATE ... RETURNING
\* statement has run and its rows are fetched.  The two validation chains in
\* front of it are built and dropped (no .validate() call), so they reject no
\* argument; ValidationBuilder.is_integer, which the first chain names (as
\* mark_success, mark_failure and get_result name is_non_empty_string), has
\* no definition in validation.py and is read as a check that the argument
\* of the right type passes.
reserve(c, n, now) ==
    /\ resv[c].st = "idle"
    /\ WriteFree(c)
    /\ Opened
    /\ IF SchemaAfterOpen
       THEN \E S \in Selections(rows, n, IsoFormat(now)) :
              /\ rows' = ReserveRows(rows, S, IsoFormat(now))
              /\ resv' = [resv EXCEPT ![c] =
                            [st |-> "done", ids |-> S, now |-> Some(now), n |-> n]]
              /\ everReserved' = everReserved \cup S
       ELSE /\ resv' = [resv EXCEPT ![c] =
                            [st |-> "err", ids |-> {}, now |-> Some(now), n |-> n]]
            /\ UNCHANGED <<rows, everReserved>>
    /\ UNCHANGED <<clock, is_memory, retCount, observed>>

\* reserve, second half: commit, and return the ReservedTask list or raise
\* BackendError
reserve_return(c) ==
    /\ resv[c].st \in {"done", "err"}
    /\ resv' = [resv EXCEPT ![c] = IdleResv]
    /\ retCount' = [t \in AllTaskIds |->
                      IF t \in resv[c].ids THEN Min(retCount[t] + 1, 2)
                      ELSE retCount[t]]
    /\ UNCHANGED <<clock, is_memory, initialized, shared_connection, schema, rows,
                   everReserved, observed>>

\* SQLiteBackend.mark_success(task_id, result_value)
mark_success(t, v) ==
    /\ NoWriter
    /\ Opened
    /\ rows' = IF SchemaAfterOpen
               THEN SuccessRows(rows, t, v, IsoFormat(UtcNow(clock)))
               ELSE rows
    /\ UNCHANGED <<clock, is_memory, resv, retCount, everReserved, observed>>

\* SQLiteBackend.mark_failure(task_id, error, traceback)
mark_failure(t, e, tb) ==
    /\ NoWriter
    /\ Opened
    /\ rows' = IF SchemaAfterOpen
               THEN FailureRows(rows, t, e, tb, IsoFormat(UtcNow(clock)))
               ELSE rows
    /\ UNCHANGED <<clock, is_memory, resv, retCount, everReserved, observed>>

\* SQLiteBackend.get_result(task_id); the caller may keep the Result it got
get_result(t) ==
    /\ Opened
    /\ \/ UNCHANGED observed
       \/ /\ SchemaAfterOpen
          /\ observed = NULL
          /\ ResultOf(rows, t) # NULL
          /\ observed' = Some(Seen(ResultOf(rows, t)[1]))
    /\ UNCHANGED <<clock, is_memory, rows, resv, retCount, everReserved>>

\* time passes, up to the clock reading limit
Advance(limit) ==
    /\ clock < limit
    /\ clock' = clock + 1
    /\ UNCHANGED <<is_memory, initialized, shared_connection, schema, rows, resv,
                   retCount, everReserved, observed>>

Tick == Advance(MaxClock)

BackendInit ==
    /\ clock = 0
    /\ is_memory \in BOOLEAN
    /\ initialized = FALSE
    /\ shared_connection = FALSE
    /\ schema = FALSE
    /\ rows = EmptyRows
    /\ resv = [c \in Workers |-> IdleResv]
    /\ retCount = [t \in AllTaskIds |-> 0]
    /\ everReserved = {}
    /\ observed = NULL

\* ---------------------------------------------------------------- worker
\* the workers a specification runs; the other Worker objects stay unstarted
ActiveWorkers == {1}

\* Worker(backend, max_concurrency=..., poll_interval=...) for a poll interval
\* of the set intervals
WorkerInitWith(intervals) ==
    /\ max_concurrency \in [Workers -> 1..MaxConcurrency]
    /\ \A w \in Workers \ ActiveWorkers : max_concurrency[w] = 1
    /\ poll_interval \in [Workers -> intervals]
    /\ \A w \in Workers \ ActiveWorkers : poll_interval[w] = PollIntervalDefault
    /\ sleeping = [w \in Workers |-> 0]
    /\ reserved_func = [t \in AllTaskIds |-> ""]
    /\ running = [w \in Workers |-> FALSE]
    /\ shutdown_event = [w \in Workers |-> FALSE]
    /\ pc = [w \in Workers |-> "init"]
    /\ stopPc = [w \in Workers |-> "none"]
    /\ tasks = [w \in Workers |-> {}]
    /\ gathered = [w \in Workers |-> {}]
    /\ semaphore = max_concurrency
    /\ exec = [t \in AllTaskIds |-> "none"]
    /\ wrap = [t \in AllTaskIds |-> "none"]
    /\ outcome = [t \in AllTaskIds |-> NULL]
    /\ owner = [t \in AllTaskIds |-> 0]
    /\ failCall = [t \in AllTaskIds |-> NULL]

\* the default poll interval
WorkerInit == WorkerInitWith({PollIntervalDefault})

\* a backend used without a worker: the worker objects are never started
IdleWorkers ==
    /\ max_concurrency = [w \in Workers |-> 1]
    /\ poll_interval = [w \in Workers |-> PollIntervalDefault]
    /\ sleeping = [w \in Workers |-> 0]
    /\ reserved_func = [t \in AllTaskIds |-> ""]
    /\ running = [w \in Workers |-> FALSE]
    /\ shutdown_event = [w \in Workers |-> FALSE]
    /\ pc = [w \in Workers |-> "init"]
    /\ stopPc = [w \in Workers |-> "none"]
    /\ tasks = [w \in Workers |-> {}]
    /\ gathered = [w \in Workers |-> {}]
    /\ semaphore = max_concurrency
    /\ exec = [t \in AllTaskIds |-> "none"]
    /\ wrap = [t \in AllTaskIds |-> "none"]
    /\ outcome = [t \in AllTaskIds |-> NULL]
    /\ owner = [t \in AllTaskIds |-> 0]
    /\ failCall = [t \in AllTaskIds |-> NULL]

\* what the callable of a task may do: return a value or raise
Outcomes ==
    {[kind |-> "ok", val |-> x] : x \in ReturnValues}
        \cup {[kind |-> "exc", val |-> e] : e \in Exceptions}

\* Worker.start(), up to "await self.backend.connect()"
start(w) ==
    /\ pc[w] = "init"
    /\ running' = [running EXCEPT ![w] = TRUE]
    /\ shutdown_event' = [shutdown_event EXCEPT ![w] = FALSE]
    /\ pc' = [pc EXCEPT ![w] = "connect"]
    /\ UNCHANGED <<rvars, max_concurrency, poll_interval, sleeping, reserved_func,
                   stopPc, tasks, gathered, semaphore, exec, wrap,
                   outcome, owner, failCall>>
    /\ UNCHANGED bvars
    /\ UNCHANGED <<qvars, svars>>

\* start(): backend.connect() has returned, _polling_loop() is entered
start_connected(w) ==
    /\ pc[w] = "connect"
    /\ connect
    /\ pc' = [pc EXCEPT ![w] = "poll"]
    /\ UNCHANGED <<rvars, max_concurrency, poll_interval, sleeping, reserved_func,
                   running, shutdown_event, stopPc, tasks, gathered,
                   semaphore, exec, wrap, outcome, owner, failCall>>
    /\ UNCHANGED <<qvars, svars>>

\* a loop that tests nothing: "while True"
LoopEndsNever(w) == FALSE

\* the test of the polling loop, "while not self._shutdown_event.is_set()"
LoopEnds(w) == shutdown_event[w]

\* _polling_loop(): "while not self._shutdown_event.is_set()" is false; the
\* loop ends and start() clears _running in its finally block
polling_loop_exit(w) ==
    /\ pc[w] = "poll"
    /\ LoopEnds(w)
    /\ pc' = [pc EXCEPT ![w] = "stopped"]
    /\ running' = [running EXCEPT ![w] = FALSE]
    /\ UNCHANGED <<rvars, max_concurrency, poll_interval, sleeping, reserved_func,
                   shutdown_event, stopPc, tasks, gathered, semaphore,
                   exec, wrap, outcome, owner, failCall>>
    /\ UNCHANGED bvars
    /\ UNCHANGED <<qvars, svars>>

\* max_items=self.max_concurrency
ReserveItems(w) == max_concurrency[w]

\* _polling_loop(): backend.reserve(max_items=self.max_concurrency, now=now)
\* is called and its statement runs
polling_loop_reserve(w) ==
    /\ pc[w] = "poll"
    /\ ~LoopEnds(w)
    /\ reserve(w, ReserveItems(w), UtcNow(clock))
    /\ pc' = [pc EXCEPT ![w] = "reserving"]
    /\ UNCHANGED <<rvars, max_concurrency, poll_interval, sleeping, reserved_func,
                   running, shutdown_event, stopPc, tasks, gathered,
                   semaphore, exec, wrap, outcome, owner, failCall>>
    /\ UNCHANGED <<qvars, svars>>

\* "await asyncio.sleep(min(self.poll_interval, 1.0))" in the handler of the
\* polling loop
BackOffOneSecond(interval) == TicksPerSecond

BackOff(interval) == Min(interval, TicksPerSecond)

\* _polling_loop(): reserve has returned.  For every reserved task
\* _track_task() creates the _execute_task task and adds it to _tasks, and a
\* second task is created for _execute_with_semaphore; the loop polls again.
\* With nothing reserved the loop sleeps poll_interval; an exception of
\* reserve is caught by "except Exception", logged, and the loop sleeps the
\* back-off.
polling_loop_spawn(w) ==
    /\ pc[w] = "reserving"
    /\ reserve_return(w)
    /\ IF resv[w].st = "done" /\ resv[w].ids # {}
       THEN /\ exec' = [t \in AllTaskIds |-> IF t \in resv[w].ids THEN "created" ELSE exec[t]]
            /\ wrap' = [t \in AllTaskIds |-> IF t \in resv[w].ids THEN "waiting" ELSE wrap[t]]
            /\ owner' = [t \in AllTaskIds |-> IF t \in resv[w].ids THEN w ELSE owner[t]]
            /\ tasks' = [tasks EXCEPT ![w] = @ \cup resv[w].ids]
            /\ reserved_func' = [t \in AllTaskIds |->
                    IF t \in resv[w].ids THEN rows[t].func ELSE reserved_func[t]]
            /\ pc' = [pc EXCEPT ![w] = "poll"]
            /\ UNCHANGED sleeping
       ELSE /\ IF resv[w].st = "err"
               THEN /\ pc' = [pc EXCEPT ![w] = "backoff"]
                    /\ sleeping' = [sleeping EXCEPT ![w] = BackOff(poll_interval[w])]
               ELSE /\ pc' = [pc EXCEPT ![w] = "sleep"]
                    /\ sleeping' = [sleeping EXCEPT ![w] = poll_interval[w]]
            /\ UNCHANGED <<exec, wrap, owner, tasks, reserved_func>>
    /\ UNCHANGED <<rvars, max_concurrency, poll_interval, running, shutdown_event, stopPc,
                   gathered, semaphore, outcome, failCall>>
    /\ UNCHANGED <<qvars, svars>>

\* _polling_loop(): the asyncio.sleep of either branch is over; the loop
\* tests the shutdown signal again
polling_loop_wake(w) ==
    /\ pc[w] \in {"sleep", "backoff"}
    /\ pc' = [pc EXCEPT ![w] = "poll"]
    /\ sleeping' = [sleeping EXCEPT ![w] = 0]
    /\ UNCHANGED <<rvars, max_concurrency, poll_interval, reserved_func, running, shutdown_event, stopPc,
                   tasks, gathered, semaphore, exec, wrap, outcome, owner, failCall>>
    /\ UNCHANGED bvars
    /\ UNCHANGED <<qvars, svars>>

\* a worker that calls whatever the payload holds
DecodeErrorNone(func) == NULL

\* _execute_task(), before the call: deserialize_task_envelope raises on
\* bytes that do not unpickle and on an object that is no dict with func,
\* args and kwargs, which the worker turns into SerializationError("Invalid
\* task envelope format", operation="deserialize", data_type=
\* "task_envelope"); a func that is not callable raises ValidationError.
\* The messages are the str() of those exceptions.
DecodeError(func) ==
    CASE func \in {"corrupt", "not_a_mapping", "missing_keys"} ->
           Some([cls |-> "SerializationError",
                 msg |-> "Invalid task envelope format (context: operation=deserialize, data_type=task_envelope)"])
      [] func = "not_callable" ->
           Some([cls |-> "ValidationError",
                 msg |-> "Task envelope 'func' must be callable (context: parameter=func, value=42)"])
      [] OTHER -> NULL

\* _execute_task(): the task created by _track_task runs: the envelope is
\* decoded and, when that gives a callable, the callable is invoked
\* (awaited, or handed to the default executor, whose pool is larger than
\* the task sets modelled here); otherwise the exception goes to the handler
\* that records the failure
execute_task_start(t) ==
    /\ exec[t] = "created"
    /\ IF DecodeError(reserved_func[t]) = NULL
       THEN /\ exec' = [exec EXCEPT ![t] = "running"]
            /\ UNCHANGED outcome
       ELSE /\ exec' = [exec EXCEPT ![t] = "marking"]
            /\ outcome' = [outcome EXCEPT ![t] =
                    Some([kind |-> "exc", val |-> DecodeError(reserved_func[t])[1]])]
    /\ UNCHANGED <<rvars, max_concurrency, poll_interval, sleeping, reserved_func,
                   running, shutdown_event, pc, stopPc, tasks, gathered,
                   semaphore, wrap, owner, failCall>>
    /\ UNCHANGED bvars
    /\ UNCHANGED <<qvars, svars>>

\* the callable returns or raises
execute_task_return(t, out) ==
    /\ exec[t] = "running"
    /\ exec' = [exec EXCEPT ![t] = "marking"]
    /\ outcome' = [outcome EXCEPT ![t] = Some(out)]
    /\ UNCHANGED <<rvars, max_concurrency, poll_interval, sleeping, reserved_func,
                   running, shutdown_event, pc, stopPc, tasks, gathered,
                   semaphore, wrap, owner, failCall>>
    /\ UNCHANGED bvars
    /\ UNCHANGED <<qvars, svars>>

\* error_msg = str(e)
error_msg(e) == Str(e)

\* a loop that awaits the execution inline: the exception ends it
AfterTaskExceptionPropagates(p) == "crashed"

\* where the polling loop stands after a task ended with an exception: the
\* exception stays in the detached task made by asyncio.create_task
AfterTaskException(p) == p

\* "except Exception as e: raise WorkerError(..., task_id=task_id,
\* operation="mark_success", cause=e)" and the str() of what that raises
MarkSuccessFailed ==
    RaiseFrom("WorkerError", {"task_id", "operation", "cause"}, "mark_success",
              "BackendError")
MarkSuccessFailedText ==
    IF MarkSuccessFailed.cls = "WorkerError"
    THEN "Failed to serialize and record task success"
    ELSE "WorkerError.__init__() got an unexpected keyword argument 'operation'"

\* _execute_task(): the outcome is recorded, mark_success(task_id,
\* serialize_result(result)) on return, mark_failure(task_id, str(e),
\* traceback.format_exc()) on an exception; a mark_success that raises is
\* followed by mark_failure with the WorkerError text.  The task is then done
\* and its done-callback discards it from _tasks.
execute_task_mark(t) ==
    /\ exec[t] = "marking"
    /\ LET out == outcome[t][1]
       IN IF out.kind = "ok"
          THEN /\ mark_success(t, serialize_result(out.val))
               /\ failCall' = [failCall EXCEPT ![t] =
                      IF SchemaAfterOpen THEN NULL
                      ELSE Some([error |-> MarkSuccessFailedText,
                                 traceback |-> <<"Traceback (most recent call last):",
                                                 MarkSuccessFailed.cls>>])]
               /\ pc' = pc
          ELSE /\ mark_failure(t, error_msg(out.val), FormatExc(out.val))
               /\ failCall' = [failCall EXCEPT ![t] =
                      Some([error |-> error_msg(out.val),
                            traceback |-> FormatExc(out.val)])]
               /\ pc' = [w \in Workers |->
                           IF w = owner[t] THEN AfterTaskException(pc[w]) ELSE pc[w]]
    /\ exec' = [exec EXCEPT ![t] = "done"]
    /\ tasks' = [w \in Workers |-> tasks[w] \ {t}]
    /\ UNCHANGED <<rvars, max_concurrency, poll_interval, sleeping, reserved_func,
                   running, shutdown_event, stopPc, gathered,
                   semaphore, wrap, outcome, owner>>
    /\ UNCHANGED <<qvars, svars>>

\* _execute_task() when the backend has a hiccup (database is locked, disk
\* I/O error) at the moment the outcome is recorded: the mark_* call raises
\* BackendError.  A failed mark_success goes to the handler, which calls
\* mark_failure once with the text of the WorkerError construction; that call
\* works when the hiccup is over (again = FALSE) or raises as well.  A
\* failed mark_failure is logged.  Nothing is recorded later: the
\* TaskExecutionError is raised, the task is done and discarded from _tasks.
execute_task_mark_hiccup(t, again) ==
    /\ exec[t] = "marking"
    /\ SchemaAfterOpen
    /\ LET out == outcome[t][1]
       IN IF out.kind = "ok" /\ ~again
          THEN /\ mark_failure(t, MarkSuccessFailedText,
                               <<"Traceback (most recent call last):",
                                 MarkSuccessFailed.cls>>)
               /\ failCall' = [failCall EXCEPT ![t] =
                      Some([error |-> MarkSuccessFailedText,
                            traceback |-> <<"Traceback (most recent call last):",
                                            MarkSuccessFailed.cls>>])]
          ELSE /\ UNCHANGED bvars
               /\ failCall' = [failCall EXCEPT ![t] =
                      IF out.kind = "ok"
                      THEN Some([error |-> MarkSuccessFailedText,
                                 traceback |-> <<"Traceback (most recent call last):",
                                                 MarkSuccessFailed.cls>>])
                      ELSE Some([error |-> error_msg(out.val),
                                 traceback |-> FormatExc(out.val)])]
    /\ exec' = [exec EXCEPT ![t] = "done"]
    /\ tasks' = [w \in Workers |-> tasks[w] \ {t}]
    /\ UNCHANGED <<rvars, max_concurrency, poll_interval, sleeping, reserved_func,
                   running, shutdown_event, pc, stopPc, gathered,
                   semaphore, wrap, outcome, owner>>
    /\ UNCHANGED <<qvars, svars>>

\* _execute_with_semaphore(): "async with self._semaphore" is entered once a
\* permit is free (its task was created after the _execute_task task and so
\* runs after that one's first step); with the shutdown signal set it returns
\* at once, giving the permit back, otherwise it awaits the _execute_task task
execute_with_semaphore_acquire(t) ==
    /\ wrap[t] = "waiting"
    /\ exec[t] # "created"
    /\ semaphore[owner[t]] > 0
    /\ IF shutdown_event[owner[t]]
       THEN /\ wrap' = [wrap EXCEPT ![t] = "skipped"]
            /\ semaphore' = semaphore
       ELSE /\ wrap' = [wrap EXCEPT ![t] = "holding"]
            /\ semaphore' = [semaphore EXCEPT ![owner[t]] = @ - 1]
    /\ UNCHANGED <<rvars, max_concurrency, poll_interval, sleeping, reserved_func,
                   running, shutdown_event, pc, stopPc, tasks, gathered,
                   exec, outcome, owner, failCall>>
    /\ UNCHANGED bvars
    /\ UNCHANGED <<qvars, svars>>

\* a block that leaves without giving its permit back
semaphore_release_lost(n) == n

\* the exit of "async with self._semaphore", on a return and on an exception
\* of the awaited task alike: Semaphore.release() adds one permit
semaphore_release(n) == n + 1

\* _execute_with_semaphore(): the awaited _execute_task task is done; the
\* permit is released
execute_with_semaphore_release(t) ==
    /\ wrap[t] = "holding"
    /\ exec[t] = "done"
    /\ wrap' = [wrap EXCEPT ![t] = "finished"]
    /\ semaphore' = [semaphore EXCEPT ![owner[t]] = semaphore_release(@)]
    /\ UNCHANGED <<rvars, max_concurrency, poll_interval, sleeping, reserved_func,
                   running, shutdown_event, pc, stopPc, tasks, gathered,
                   exec, outcome, owner, failCall>>
    /\ UNCHANGED bvars
    /\ UNCHANGED <<qvars, svars>>

\* Worker.stop(): returns at once when the worker is not running; otherwise
\* sets the shutdown signal and gathers the handles _tasks holds right now
stop(w) ==
    /\ stopPc[w] = "none"
    /\ IF ~running[w]
       THEN /\ stopPc' = [stopPc EXCEPT ![w] = "noop"]
            /\ UNCHANGED <<shutdown_event, gathered>>
       ELSE /\ shutdown_event' = [shutdown_event EXCEPT ![w] = TRUE]
            /\ gathered' = [gathered EXCEPT ![w] = tasks[w]]
            /\ stopPc' = [stopPc EXCEPT ![w] = IF tasks[w] = {} THEN "close" ELSE "gather"]
    /\ UNCHANGED <<rvars, max_concurrency, poll_interval, sleeping, reserved_func,
                   running, pc, tasks, semaphore, exec, wrap, outcome,
                   owner, failCall>>
    /\ UNCHANGED bvars
    /\ UNCHANGED <<qvars, svars>>

\* stop(): asyncio.gather(*self._tasks, return_exceptions=True) is complete
stop_gathered(w) ==
    /\ stopPc[w] = "gather"
    /\ \A t \in gathered[w] : exec[t] = "done"
    /\ stopPc' = [stopPc EXCEPT ![w] = "close"]
    /\ UNCHANGED <<rvars, max_concurrency, poll_interval, sleeping, reserved_func,
                   running, shutdown_event, pc, tasks, gathered,
                   semaphore, exec, wrap, outcome, owner, failCall>>
    /\ UNCHANGED bvars
    /\ UNCHANGED <<qvars, svars>>

\* stop(): backend.close(), then stop() returns
stop_close(w) ==
    /\ stopPc[w] = "close"
    /\ close
    /\ stopPc' = [stopPc EXCEPT ![w] = "returned"]
    /\ UNCHANGED <<rvars, max_concurrency, poll_interval, sleeping, reserved_func,
                   running, shutdown_event, pc, tasks, gathered,
                   semaphore, exec, wrap, outcome, owner, failCall>>
    /\ UNCHANGED <<qvars, svars>>

\* ------------------------------------------------------------ task queue
\* no TaskQueue call has been made
QueueIdle ==
    /\ qpc = "idle"
    /\ qcall = NULL
    /\ qstart = 0
    /\ qwake = 0
    /\ qresult = NULL
    /\ qret = NULL
    /\ bret = NULL


\* task_id arguments: None, the empty string, and the id of a task
IdNone == [type |-> "NoneType", len |-> 0, id |-> 0]
IdEmpty == [type |-> "str", len |-> 0, id |-> 0]
IdOf(t) == [type |-> "str", len |-> 1, id |-> t]

\* the timeouts a consumer passes: None, or 0..MaxTimeout seconds
Timeouts == {NULL} \cup {Some(s) : s \in 0..MaxTimeout}

\* "if timeout and (_now() - start).total_seconds() > timeout"
TimedOut(timeout, began, now) ==
    /\ timeout # NULL
    /\ timeout[1] # 0
    /\ now - began > timeout[1] * TicksPerSecond

\* "except Exception as e: raise TaskQueueError(..., operation="get_result",
\* cause=e)" around the body of the polling loop of get_result
WrapInTaskQueueError(cls) ==
    RaiseFrom("TaskQueueError", {"task_id", "operation", "cause"}, "get_result", cls)

\* how Backend.enqueue(task) ends: the failed INSERT, like any other error,
\* is handled by raise BackendError(..., operation="enqueue", task_id=task.id,
\* backend_type="sqlite", cause=e)
EnqueueOutcome(t) ==
    IF SchemaAfterOpen /\ t \notin DOMAIN rows
    THEN Returned(NULL)
    ELSE RaiseFrom("BackendError", {"operation", "task_id", "backend_type", "cause"},
                   "enqueue",
                   IF SchemaAfterOpen THEN "IntegrityError" ELSE "OperationalError")

\* how Backend.get_result(task_id) ends: the Result or None, or any error
\* handled by raise BackendError(..., operation="get_result", task_id=task_id,
\* backend_type="sqlite", cause=e)
GetResultOutcome(t) ==
    IF SchemaAfterOpen
    THEN Returned(ResultOf(rows, t))
    ELSE RaiseFrom("BackendError", {"operation", "task_id", "backend_type", "cause"},
                   "get_result", "OperationalError")

\* consecutive client calls are told apart by an alternating mark
NextSeq == IF bret = NULL THEN 0 ELSE 1 - bret[1].seq

\* a producer calls Backend.enqueue and sees how it ends
backend_enqueue(t, eta) ==
    /\ enqueue(t, eta)
    /\ bret' = Some([op |-> "enqueue", task_id |-> t, outcome |-> EnqueueOutcome(t),
                     seq |-> NextSeq])
    /\ UNCHANGED <<qpc, qcall, qstart, qwake, qresult, qret>>
    /\ UNCHANGED <<wvars, rvars>>

\* a consumer calls Backend.get_result and sees how it ends
backend_get_result(t) ==
    /\ get_result(t)
    /\ observed' = observed
    /\ bret' = Some([op |-> "get_result", task_id |-> t,
                     outcome |-> GetResultOutcome(t), seq |-> NextSeq])
    /\ UNCHANGED <<qpc, qcall, qstart, qwake, qresult, qret>>
    /\ UNCHANGED <<wvars, rvars>>

\* a client calls Backend.connect() and sees it return: initialize() has
\* nothing to report when _initialized is set, and creates the tables otherwise
backend_connect ==
    /\ connect
    /\ bret' = Some([op |-> "connect", task_id |-> 0, outcome |-> Returned(NULL),
                     seq |-> NextSeq])
    /\ UNCHANGED <<qpc, qcall, qstart, qwake, qresult, qret>>
    /\ UNCHANGED <<wvars, rvars>>

\* a client calls Backend.close() and sees it return
backend_close ==
    /\ close
    /\ bret' = Some([op |-> "close", task_id |-> 0, outcome |-> Returned(NULL),
                     seq |-> NextSeq])
    /\ UNCHANGED <<qpc, qcall, qstart, qwake, qresult, qret>>
    /\ UNCHANGED <<wvars, rvars>>

\* TaskQueue.get_result(task_id, timeout): arguments validated, start = _now()
queue_get_result(t, timeout) ==
    /\ qpc = "idle"
    /\ qpc' = "lookup"
    /\ qcall' = Some([op |-> "get_result", task_id |-> t, timeout |-> timeout,
                      arg |-> IdOf(t)])
    /\ qstart' = clock
    /\ UNCHANGED <<qwake, qresult, qret, bret>>
    /\ UNCHANGED bvars
    /\ UNCHANGED <<wvars, rvars>>

\* get_result: result = await self.backend.get_result(task_id); a
\* BackendError is wrapped in TaskQueueError
queue_lookup ==
    /\ qpc = "lookup"
    /\ get_result(qcall[1].task_id)
    /\ observed' = observed
    /\ LET out == GetResultOutcome(qcall[1].task_id)
       IN IF out.kind = "return"
          THEN /\ qresult' = out.val
               /\ qpc' = "check"
               /\ qret' = qret
          ELSE /\ qresult' = NULL
               /\ qpc' = "done"
               /\ qret' = Some(WrapInTaskQueueError(out.cls))
    /\ UNCHANGED <<qcall, qstart, qwake, bret>>
    /\ UNCHANGED <<wvars, rvars>>

\* get_result: "if result: return result"; else the timeout test, whose
\* TimeoutError is raised inside the try block and so wrapped as well; else
\* asyncio.sleep(0.5)
queue_check ==
    /\ qpc = "check"
    /\ IF qresult # NULL
       THEN /\ qpc' = "done"
            /\ qret' = Some(Returned(qresult))
            /\ qwake' = qwake
       ELSE IF TimedOut(qcall[1].timeout, qstart, clock)
       THEN /\ qpc' = "done"
            /\ qret' = Some(WrapInTaskQueueError("TimeoutError"))
            /\ qwake' = qwake
       ELSE /\ qpc' = "sleep"
            /\ qwake' = clock + SleepTicks
            /\ qret' = qret
    /\ UNCHANGED <<qcall, qstart, qresult, bret>>
    /\ UNCHANGED bvars
    /\ UNCHANGED <<wvars, rvars>>

\* get_result: the sleep is over, the loop polls again
queue_wake ==
    /\ qpc = "sleep"
    /\ clock >= qwake
    /\ qpc' = "lookup"
    /\ UNCHANGED <<qcall, qstart, qwake, qresult, qret, bret>>
    /\ UNCHANGED bvars
    /\ UNCHANGED <<wvars, rvars>>


\* --------------------------------------------------- TaskQueue.enqueue
\* the arguments a caller may pass, with the Python type that validation
\* looks at.  func: None, a string, a function cloudpickle can encode and one
\* it cannot (its closure holds a lock, say)
Funcs == {[type |-> "NoneType", picklable |-> FALSE],
          [type |-> "str", picklable |-> TRUE],
          [type |-> "function", picklable |-> TRUE],
          [type |-> "function", picklable |-> FALSE]}
Callable(f) == f.type = "function"

\* a naive datetime has no tzinfo: the record has no off field
NaiveDT(loc) == [loc |-> loc]
TzAware(dt) == "off" \in DOMAIN dt
\* the etas of the producer specification: none, aware ones of either
\* offset, and naive ones
ProducerEtas ==
    {NULL} \cup {Some(DT(l, o)) : l \in 0..ProducerClock, o \in {0, 2}}
           \cup {Some(NaiveDT(l)) : l \in 0..ProducerClock}

\* timeout arguments: None, or a number of seconds, negative ones included
TimeoutArgs == {NULL} \cup {Some(s) : s \in -1..MaxTimeout}

\* validate(func, "func").is_required().is_callable().validate() and
\* validate(eta, "eta").is_timezone_aware().validate(): the messages collected
FuncErrorsRequiredOnly(f) ==
    IF f.type = "NoneType" THEN {"func is required"} ELSE {}

FuncErrors(f) ==
    IF f.type = "NoneType" THEN {"func is required"}
    ELSE IF ~Callable(f) THEN {"func must be callable"}
    ELSE {}

EtaErrors(eta) ==
    IF eta # NULL /\ ~TzAware(eta[1]) THEN {"eta must be timezone-aware"} ELSE {}

\* validate(task_id, "task_id").is_required().is_string().min_length(1)
TaskIdErrors(a) ==
    IF a.type = "NoneType" THEN {"task_id is required"}
    ELSE IF a.type # "str" THEN {"task_id must be a string"}
    ELSE IF a.len < 1 THEN {"task_id must be at least 1 characters"}
    ELSE {}

\* validate(timeout, "timeout").is_non_negative()
TimeoutErrors(timeout) ==
    IF timeout # NULL /\ timeout[1] < 0 THEN {"timeout must be non-negative"} ELSE {}

\* how a producer call ends, with the task_id its error context carries
Ended(kind, cls, op, cause, tid, v) ==
    [kind |-> kind, cls |-> cls, operation |-> op, cause |-> cause,
     task_id |-> tid, val |-> v]

\* TaskQueue.enqueue(func, eta=eta) up to "available_at = eta if eta else
\* _now()": validation, then the codec on the envelope
queue_enqueue(f, eta) ==
    /\ qpc \in {"idle", "done"}
    /\ qcall' = Some([op |-> "enqueue", func |-> f, eta |-> eta,
                      available_at |-> IF eta = NULL THEN UtcNow(clock) ELSE eta[1]])
    /\ IF FuncErrors(f) # {}
       THEN /\ qpc' = "done"
            /\ qret' = Some(Ended("raise", "ValidationError", "", "", NULL, NULL))
       ELSE IF EtaErrors(eta) # {}
       THEN /\ qpc' = "done"
            /\ qret' = Some(Ended("raise", "ValidationError", "", "", NULL, NULL))
       ELSE IF ~f.picklable
       THEN /\ qpc' = "done"
            /\ qret' = Some(Ended("raise", "SerializationError", "serialize",
                                  "SerializationError", NULL, NULL))
       ELSE /\ qpc' = "persist"
            /\ qret' = NULL
    /\ UNCHANGED <<qstart, qwake, qresult, bret>>
    /\ UNCHANGED bvars
    /\ UNCHANGED <<wvars, rvars>>

\* the error TaskQueue.enqueue raises when Backend.enqueue raised: raise
\* TaskQueueError(..., task_id=task.id, operation="enqueue", cause=e)
EnqueueFailed(t, cls) ==
    LET err == RaiseFrom("TaskQueueError", {"task_id", "operation", "cause"},
                         "enqueue", cls)
    IN Ended("raise", err.cls, err.operation, err.cause,
             IF err.cls = "TaskQueueError" THEN Some(t) ELSE NULL, NULL)

\* TaskQueue.enqueue, the rest: task = Task(func=..., available_at=...) with a
\* fresh uuid and created_at = now, await self.backend.enqueue(task),
\* return task.id
queue_enqueue_persist(t) ==
    /\ qpc = "persist"
    /\ t \notin DOMAIN rows
    /\ enqueue_task(t, qcall[1].available_at, UtcNow(clock))
    /\ bret' = Some([op |-> "enqueue", task_id |-> t, outcome |-> EnqueueOutcome(t),
                     seq |-> NextSeq])
    /\ qret' = IF EnqueueOutcome(t).kind = "return"
               THEN Some(Ended("return", "", "", "", NULL, Some(t)))
               ELSE Some(EnqueueFailed(t, EnqueueOutcome(t).cls))
    /\ qpc' = "done"
    /\ UNCHANGED <<qcall, qstart, qwake, qresult>>
    /\ UNCHANGED <<wvars, rvars>>

\* TaskQueue.get_result(task_id, timeout) from its first line: arguments that
\* fail validation end the call, the others enter the polling loop
queue_get_result_call(a, timeout) ==
    IF TaskIdErrors(a) # {} \/ TimeoutErrors(timeout) # {}
    THEN /\ qpc \in {"idle", "done"}
         /\ qpc' = "done"
         /\ qcall' = Some([op |-> "get_result", task_id |-> a.id, timeout |-> timeout,
                           arg |-> a])
         /\ qret' = Some(Ended("raise", "ValidationError", "", "", NULL, NULL))
         /\ UNCHANGED <<qstart, qwake, qresult, bret>>
         /\ UNCHANGED bvars
         /\ UNCHANGED <<wvars, rvars>>
    ELSE queue_get_result(a.id, timeout)


\* ------------------------------------------------------- SyncTaskQueue
SyncIdle ==
    /\ started = FALSE
    /\ loop = "none"
    /\ thread = "none"
    /\ spc = "idle"
    /\ scall = NULL
    /\ sret = NULL

\* how a call of the facade ends: a value of some type, or an error of class
\* cls with its operation, its cause and the text its message embeds
SyncReturned(type, v) ==
    [kind |-> "return", cls |-> "", operation |-> "", cause |-> "", msg |-> "",
     type |-> type, val |-> v]
SyncRaised(cls, op, cause, msg) ==
    [kind |-> "raise", cls |-> cls, operation |-> op, cause |-> cause, msg |-> msg,
     type |-> "", val |-> NULL]

\* __enter__: "if self._started: raise RuntimeError(...)", then
\* asyncio.get_running_loop() succeeding: raise RuntimeError(...)
EnterRefusalStartedOnly(isStarted, inLoop) ==
    IF isStarted THEN Some("RuntimeError") ELSE NULL

EnterRefusal(isStarted, inLoop) ==
    IF isStarted THEN Some("RuntimeError")
    ELSE IF inLoop THEN Some("RuntimeError")
    ELSE NULL

\* SyncTaskQueue.__enter__() called on a thread that has a running event loop
\* (inLoop) or has none: the loop and its thread are created and started, the
\* TaskQueue is built and the backend connected on the runtime thread
sync_enter(inLoop) ==
    /\ spc \in {"idle", "done"}
    /\ scall' = Some([op |-> "enter", inLoop |-> inLoop, was |-> started])
    /\ spc' = "done"
    /\ IF EnterRefusal(started, inLoop) # NULL
       THEN /\ sret' = Some(SyncRaised(EnterRefusal(started, inLoop)[1], "", "", ""))
            /\ UNCHANGED <<started, loop, thread>>
            /\ UNCHANGED bvars
       ELSE /\ loop' = "running"
            /\ thread' = "alive"
            /\ connect
            /\ started' = TRUE
            /\ sret' = Some(SyncReturned("self", NULL))
    /\ UNCHANGED <<wvars, rvars, qvars>>

\* how the connect of an enter-scope fails: SQLiteBackend.connect() raises
\* ConnectionError, which future.result() re-raises, or it is not done after
\* the 5.0 seconds of future.result(timeout=5.0), which raises TimeoutError
EnterFailures == {"raises", "timeout"}

\* SyncTaskQueue.__enter__() whose connect fails (the database cannot be
\* opened or initialized, which only a backend not yet initialized attempts):
\* the loop and its thread have been created and started, future.result
\* raises, and no handler or finally block stands between that line and the
\* caller, so "self._started = True" is not reached and nothing stops the
\* loop or joins the thread
sync_enter_fails(how) ==
    /\ spc \in {"idle", "done"}
    /\ EnterRefusal(started, FALSE) = NULL
    /\ ~initialized
    /\ scall' = Some([op |-> "enter", inLoop |-> FALSE, was |-> started])
    /\ spc' = "done"
    /\ loop' = "running"
    /\ thread' = "alive"
    /\ sret' = IF how = "raises"
               THEN Some(SyncRaised("ConnectionError", "", "Exception", ""))
               ELSE Some(SyncRaised("TimeoutError", "", "", ""))
    /\ UNCHANGED started
    /\ UNCHANGED bvars
    /\ UNCHANGED <<wvars, rvars, qvars>>

\* SQLiteBackend.close() raising: closing the shared connection failed and
\* the error is raised as ConnectionError; _shared_connection is not reset
close_raises ==
    /\ is_memory
    /\ shared_connection
    /\ UNCHANGED bvars

\* what __exit__ does with the runtime after the close: loop.stop is
\* scheduled and the thread is joined (timeout 5.0), _started is reset
ExitRuntime(closed) ==
    IF closed
    THEN [loop |-> "stopped", thread |-> "joined", started |-> FALSE]
    ELSE [loop |-> loop, thread |-> thread, started |-> started]

\* SyncTaskQueue.__exit__(exc_type, exc, tb): nothing when not started;
\* otherwise TaskQueue.__aexit__ on the runtime thread, whose error leaves
\* the method at once
sync_exit_as(op, bodyRaised, closeRaises) ==
    /\ spc \in {"idle", "done"}
    /\ scall' = Some([op |-> op, bodyRaised |-> bodyRaised, was |-> started])
    /\ spc' = "done"
    /\ IF ~started
       THEN /\ ~closeRaises
            /\ sret' = Some(SyncReturned("None", NULL))
            /\ UNCHANGED <<started, loop, thread>>
            /\ UNCHANGED bvars
       ELSE /\ IF closeRaises THEN close_raises ELSE close
            /\ sret' = IF closeRaises
                       THEN Some(SyncRaised("ConnectionError", "", "Exception", ""))
                       ELSE Some(SyncReturned("None", NULL))
            /\ loop' = ExitRuntime(~closeRaises).loop
            /\ thread' = ExitRuntime(~closeRaises).thread
            /\ started' = ExitRuntime(~closeRaises).started
    /\ UNCHANGED <<wvars, rvars, qvars>>

\* SyncTaskQueue.close(): "if self._started: self.__exit__(None, None, None)"
sync_close(closeRaises) == sync_exit_as("close", FALSE, closeRaises)

\* the with statement leaves the scope, normally or by an exception
sync_exit(bodyRaised, closeRaises) == sync_exit_as("exit", bodyRaised, closeRaises)

\* "if not self._started or not self._task_queue or not self._loop: raise
\* RuntimeError"
NotRunningNever(isStarted) == FALSE

NotRunning(isStarted) == ~isStarted

\* SyncTaskQueue.enqueue(func, eta=eta): the running test, the validation,
\* then TaskQueue.enqueue is submitted to the runtime loop
sync_enqueue(f, eta) ==
    /\ spc \in {"idle", "done"}
    /\ scall' = Some([op |-> "enqueue", func |-> f, eta |-> eta, was |-> started])
    /\ IF NotRunning(started)
       THEN /\ spc' = "done"
            /\ sret' = Some(SyncRaised("RuntimeError", "", "", ""))
            /\ UNCHANGED <<bvars, wvars, rvars, qvars>>
       ELSE IF FuncErrors(f) # {} \/ EtaErrors(eta) # {}
       THEN /\ spc' = "done"
            /\ sret' = Some(SyncRaised("ValidationError", "", "", ""))
            /\ UNCHANGED <<bvars, wvars, rvars, qvars>>
       ELSE /\ spc' = "waiting"
            /\ sret' = NULL
            /\ queue_enqueue(f, eta)
    /\ UNCHANGED <<started, loop, thread>>

\* "except Exception as e: raise SyncTaskQueueError(..., operation=op,
\* cause=e) from e" around future.result()
ReraiseFromRuntime(op, err) == SyncRaised(err.cls, err.operation, err.cause, "")

WrapInSyncError(op, err) ==
    LET e == RaiseFrom("SyncTaskQueueError",
                       IF op = "enqueue" THEN {"operation", "cause"}
                       ELSE {"task_id", "operation", "cause"},
                       op, err.cls)
    IN SyncRaised(e.cls, e.operation, e.cause, "")

\* enqueue: future.result() has the outcome of the coroutine
sync_enqueue_return ==
    /\ spc = "waiting"
    /\ scall[1].op = "enqueue"
    /\ qpc = "done"
    /\ qpc' = "idle"
    /\ spc' = "done"
    /\ sret' = IF qret[1].kind = "return"
               THEN Some(SyncReturned("task_id", qret[1].val))
               ELSE Some(WrapInSyncError("enqueue", qret[1]))
    /\ UNCHANGED <<qcall, qstart, qwake, qresult, qret, bret>>
    /\ UNCHANGED <<scall, started, loop, thread>>
    /\ UNCHANGED <<bvars, wvars, rvars>>

\* SyncTaskQueue.get_result(task_id, timeout): the running test, the
\* validation, then TaskQueue.get_result is submitted to the runtime loop
sync_get_result(a, timeout) ==
    /\ spc \in {"idle", "done"}
    /\ scall' = Some([op |-> "get_result", arg |-> a, timeout |-> timeout,
                      was |-> started])
    /\ IF NotRunning(started)
       THEN /\ spc' = "done"
            /\ sret' = Some(SyncRaised("RuntimeError", "", "", ""))
            /\ UNCHANGED <<bvars, wvars, rvars, qvars>>
       ELSE IF TaskIdErrors(a) # {} \/ TimeoutErrors(timeout) # {}
       THEN /\ spc' = "done"
            /\ sret' = Some(SyncRaised("ValidationError", "", "", ""))
            /\ UNCHANGED <<bvars, wvars, rvars, qvars>>
       ELSE /\ spc' = "waiting"
            /\ sret' = NULL
            /\ queue_get_result(a.id, timeout)
    /\ UNCHANGED <<started, loop, thread>>

\* get_result, "Handle result based on status": None is returned as None, a
\* failed Result raises TaskExecutionError(f"Task {task_id} failed:
\* {result.error}", cause=RuntimeError(result.error)), a success Result with
\* a true value is decoded, anything else is returned as it is
SyncResultAsIs(res) == SyncReturned("Result", res)

SyncResultOf(res) ==
    IF res = NULL THEN SyncReturned("None", NULL)
    ELSE IF res[1].status = "failed"
    THEN SyncRaised("TaskExecutionError", "", "RuntimeError", res[1].error)
    ELSE IF res[1].status = "success" /\ res[1].value # NULL /\ Len(res[1].value[1]) > 0
    THEN SyncReturned("value", Some(deserialize_result(res[1].value[1])))
    ELSE SyncReturned("Result", res)

\* get_result: future.result() has the outcome of the coroutine
sync_get_result_return ==
    /\ spc = "waiting"
    /\ scall[1].op = "get_result"
    /\ qpc = "done"
    /\ qpc' = "idle"
    /\ spc' = "done"
    /\ sret' = IF qret[1].kind = "return"
               THEN Some(SyncResultOf(qret[1].val))
               ELSE Some(WrapInSyncError("get_result", qret[1]))
    /\ UNCHANGED <<qcall, qstart, qwake, qresult, qret, bret>>
    /\ UNCHANGED <<scall, started, loop, thread>>
    /\ UNCHANGED <<bvars, wvars, rvars>>

\* ------------------------------------------------------------ retry_async
\* the exception classes a decorated function raises here, each with the
\* classes it is an instance of: the built-in ConnectionError and the
\* library's exceptions.ConnectionError(BackendError) are different classes
Mro(cls) ==
    CASE cls = "builtins.ConnectionError" ->
           {"builtins.ConnectionError", "OSError", "Exception"}
      [] cls = "sitq.exceptions.ConnectionError" ->
           {"sitq.exceptions.ConnectionError", "sitq.exceptions.BackendError",
            "sitq.exceptions.SitqError", "Exception"}
      [] cls = "ValueError" -> {"ValueError", "Exception"}
      [] OTHER -> {cls, "Exception"}

ExceptionClasses ==
    {"builtins.ConnectionError", "sitq.exceptions.ConnectionError", "ValueError"}

\* what one invocation of the decorated function does
Effects == {"return"} \cup ExceptionClasses

\* "if retryable_exceptions is None: retryable_exceptions = [ConnectionError,
\* TimeoutError]": validation.py imports only ValidationError from
\* .exceptions, so the two names are the built-in classes
DefaultRetryable == {"builtins.ConnectionError", "builtins.TimeoutError"}

\* the list the wrapper works with
RetryableList(arg) == IF arg = NULL THEN DefaultRetryable ELSE arg[1]

\* the negation of "not retryable_exceptions or not any(isinstance(e,
\* exc_type) for exc_type in retryable_exceptions)"
IsRetryable(e, arg) ==
    /\ RetryableList(arg) # {}
    /\ \E c \in RetryableList(arg) : c \in Mro(e)

\* a wrapper that gives up one attempt early
LastAttemptEarly(a, n) == a >= n - 2

\* "if attempt == max_attempts - 1"
LastAttempt(a, n) == a = n - 1

\* no decorated function is called
RetryIdle ==
    /\ max_attempts = 1
    /\ retryable_exceptions = NULL
    /\ effects = <<>>
    /\ attempt = 0
    /\ calls = 0
    /\ rpc = "idle"
    /\ rret = NULL

\* the wrapper is called: "for attempt in range(max_attempts)" starts, or,
\* with nothing to iterate, "raise last_exception" raises None, a TypeError
retry_call ==
    /\ rpc = "idle"
    /\ IF max_attempts >= 1
       THEN rpc' = "attempt" /\ rret' = rret
       ELSE rpc' = "done" /\ rret' = Some([kind |-> "raise", cls |-> "TypeError"])
    /\ attempt' = 0
    /\ UNCHANGED <<max_attempts, retryable_exceptions, effects, calls>>
    /\ UNCHANGED <<bvars, wvars, qvars, svars>>

\* one pass of the loop body: the function is awaited; its value is
\* returned, or its exception is raised again when it is not retryable or
\* this was the last attempt, or else the wrapper sleeps the delay
retry_attempt ==
    /\ rpc = "attempt"
    /\ calls' = calls + 1
    /\ LET e == effects[calls + 1]
       IN IF e = "return"
          THEN rpc' = "done" /\ rret' = Some([kind |-> "return", cls |-> ""])
          ELSE IF ~IsRetryable(e, retryable_exceptions)
                    \/ LastAttempt(attempt, max_attempts)
          THEN rpc' = "done" /\ rret' = Some([kind |-> "raise", cls |-> e])
          ELSE rpc' = "sleep" /\ rret' = rret
    /\ UNCHANGED <<max_attempts, retryable_exceptions, effects, attempt>>
    /\ UNCHANGED <<bvars, wvars, qvars, svars>>

\* "await asyncio.sleep(delay)" is over; the loop goes to its next attempt
retry_wake ==
    /\ rpc = "sleep"
    /\ attempt' = attempt + 1
    /\ rpc' = "attempt"
    /\ UNCHANGED <<max_attempts, retryable_exceptions, effects, calls, rret>>
    /\ UNCHANGED <<bvars, wvars, qvars, svars>>

\* --------------------------------------------------------- specifications
\* Spec: the six protocol operations of the backend, called in any order by
\* concurrent callers (producers enqueue without eta; the clock stands)
Init == BackendInit /\ IdleWorkers /\ QueueIdle /\ SyncIdle /\ RetryIdle

Next ==
    \/ connect /\ UNCHANGED <<wvars, rvars, qvars, svars>>
    \/ close /\ UNCHANGED <<wvars, rvars, qvars, svars>>
    \/ \E t \in TaskIds : enqueue(t, NULL) /\ UNCHANGED <<wvars, rvars, qvars, svars>>
    \/ \E c \in Workers : \E n \in 1..MaxItems :
            reserve(c, n, UtcNow(clock)) /\ UNCHANGED <<wvars, rvars, qvars, svars>>
    \/ \E c \in Workers : reserve_return(c) /\ UNCHANGED <<wvars, rvars, qvars, svars>>
    \/ \E t \in TaskIds : \E v \in Values : mark_success(t, v) /\ UNCHANGED <<wvars, rvars, qvars, svars>>
    \/ \E t \in TaskIds : \E e \in Errors :
            mark_failure(t, e, <<"Traceback (most recent call last):", e>>)
            /\ UNCHANGED <<wvars, rvars, qvars, svars>>
    \/ \E t \in TaskIds : get_result(t) /\ UNCHANGED <<wvars, rvars, qvars, svars>>

Spec == Init /\ [][Next]_vars

\* SpecEta: producers enqueue with and without eta while time passes, and one
\* caller reserves
NextEta ==
    \/ \E t \in TaskIds : \E eta \in {NULL} \cup {Some(d) : d \in Etas} :
            enqueue(t, eta) /\ UNCHANGED <<wvars, rvars, qvars, svars>>
    \/ \E n \in 1..MaxItems : reserve(1, n, UtcNow(clock)) /\ UNCHANGED <<wvars, rvars, qvars, svars>>
    \/ reserve_return(1) /\ UNCHANGED <<wvars, rvars, qvars, svars>>
    \/ Tick /\ UNCHANGED <<wvars, rvars, qvars, svars>>

SpecEta == Init /\ [][NextEta]_vars

\* SpecWorker: one worker is started and stopped while producers enqueue
\* (without eta) on the backend it shares
InitWorker == BackendInit /\ WorkerInit /\ QueueIdle /\ SyncIdle /\ RetryIdle

\* the steps of the workers ws and of the executions they spawn
WorkerStepsOf(ws, outs) ==
    \/ \E w \in ws : start(w)
    \/ \E w \in ws : start_connected(w)
    \/ \E w \in ws : polling_loop_reserve(w)
    \/ \E w \in ws : polling_loop_spawn(w)
    \/ \E w \in ws : polling_loop_wake(w)
    \/ \E t \in TaskIds : execute_task_start(t)
    \/ \E t \in TaskIds : \E out \in outs : execute_task_return(t, out)
    \/ \E t \in TaskIds : execute_task_mark(t)
    \/ \E t \in TaskIds : execute_with_semaphore_acquire(t)
    \/ \E t \in TaskIds : execute_with_semaphore_release(t)

WorkerSteps(outs) == WorkerStepsOf(ActiveWorkers, outs)

NextWorker ==
    \/ \E t \in TaskIds : enqueue(t, NULL) /\ UNCHANGED <<wvars, rvars, qvars, svars>>
    \/ WorkerSteps(Outcomes)
    \/ \E w \in ActiveWorkers : polling_loop_exit(w)
    \/ \E w \in ActiveWorkers : stop(w)
    \/ \E w \in ActiveWorkers : stop_gathered(w)
    \/ \E w \in ActiveWorkers : stop_close(w)

SpecWorker == InitWorker /\ [][NextWorker]_vars

\* LiveSpec: one worker, with max_concurrency 1 or MaxConcurrency, runs on a
\* file database (the mode in which a mark_* call can be kept waiting) and is
\* never stopped; producers enqueue, for now or with a later UTC eta, and
\* time passes up to LiveClock.
InitLive ==
    /\ InitWorker
    /\ ~is_memory
    /\ \A w \in ActiveWorkers : max_concurrency[w] \in {1, MaxConcurrency}

LiveEtas == {UtcNow(LiveClock)}

LiveTick == Tick /\ clock < LiveClock /\ UNCHANGED <<wvars, rvars, qvars, svars>>

\* one returning and one raising callable
LiveOutcomes ==
    {[kind |-> "ok", val |-> "r1"],
     [kind |-> "exc", val |-> [cls |-> "ValueError", msg |-> "boom"]]}

NextLive ==
    \/ \E t \in TaskIds : \E eta \in {NULL} \cup {Some(d) : d \in LiveEtas} :
          enqueue(t, eta) /\ UNCHANGED <<wvars, rvars, qvars, svars>>
    \/ LiveTick
    \/ WorkerSteps(LiveOutcomes)

\* The event loop runs every coroutine that is ready, so each step of
\* start(), of the polling loop and of an execution is taken once it stays
\* enabled; a callable terminates; the clock advances.  A mark_* on a file
\* database waits in SQLite's busy handler while a reserve transaction is
\* open and gets its turn between two polls.
LiveFairness ==
    /\ WF_vars(LiveTick)
    /\ \A w \in ActiveWorkers :
          /\ WF_vars(start(w))
          /\ WF_vars(start_connected(w))
          /\ WF_vars(polling_loop_reserve(w))
          /\ WF_vars(polling_loop_spawn(w))
          /\ WF_vars(polling_loop_wake(w))
    /\ \A t \in TaskIds :
          /\ WF_vars(execute_task_start(t))
          /\ WF_vars(\E out \in LiveOutcomes : execute_task_return(t, out))
          /\ SF_vars(execute_task_mark(t))

LiveSpec == InitLive /\ [][NextLive]_vars /\ LiveFairness

\* SpecStore: clients call the backend directly and see how each call ends:
\* a producer enqueues (also a task id the table holds), a worker-side caller
\* reserves and finalizes, a consumer looks results up, the backend may be
\* closed; the clock stands
NextStore ==
    \/ \E t \in TaskIds : backend_enqueue(t, NULL) /\ UNCHANGED svars
    \/ \E n \in 1..MaxItems : reserve(1, n, UtcNow(clock)) /\ UNCHANGED <<wvars, rvars, qvars, svars>>
    \/ reserve_return(1) /\ UNCHANGED <<wvars, rvars, qvars, svars>>
    \/ \E t \in TaskIds : mark_success(t, serialize_result("r1"))
            /\ UNCHANGED <<wvars, rvars, qvars, svars>>
    \/ \E t \in TaskIds :
            mark_failure(t, "boom", <<"Traceback (most recent call last):", "boom">>)
            /\ UNCHANGED <<wvars, rvars, qvars, svars>>
    \/ close /\ UNCHANGED <<wvars, rvars, qvars, svars>>
    \/ \E t \in TaskIds : backend_get_result(t) /\ UNCHANGED svars

SpecStore == Init /\ [][NextStore]_vars

\* SpecLifecycle: one client connects and closes the backend in any order and
\* any number of times, and between those calls enqueues, reserves, finalizes
\* and looks results up, seeing how each call ends; the clock stands
NextLifecycle ==
    \/ backend_connect /\ UNCHANGED svars
    \/ backend_close /\ UNCHANGED svars
    \/ \E t \in TaskIds : backend_enqueue(t, NULL) /\ UNCHANGED svars
    \/ \E t \in TaskIds : backend_get_result(t) /\ UNCHANGED svars
    \/ \E n \in 1..MaxItems : reserve(1, n, UtcNow(clock)) /\ UNCHANGED <<wvars, rvars, qvars, svars>>
    \/ reserve_return(1) /\ UNCHANGED <<wvars, rvars, qvars, svars>>
    \/ \E t \in TaskIds : mark_success(t, serialize_result("r1"))
            /\ UNCHANGED <<wvars, rvars, qvars, svars>>

SpecLifecycle == Init /\ [][NextLifecycle]_vars

\* SpecQueue: a consumer calls TaskQueue.get_result once, for a task that is
\* enqueued, reserved and finalized meanwhile or for one that never exists,
\* the backend may be closed, and time passes up to QueueClock
QueueIds == {1}

QueueTick == Advance(QueueClock) /\ UNCHANGED <<wvars, rvars, qvars, svars>>

NextQueue ==
    \/ \E t \in QueueIds : enqueue(t, NULL) /\ UNCHANGED <<wvars, rvars, qvars, svars>>
    \/ reserve(1, 1, UtcNow(clock)) /\ UNCHANGED <<wvars, rvars, qvars, svars>>
    \/ reserve_return(1) /\ UNCHANGED <<wvars, rvars, qvars, svars>>
    \/ \E t \in QueueIds : mark_success(t, serialize_result("r1"))
            /\ UNCHANGED <<wvars, rvars, qvars, svars>>
    \/ \E t \in QueueIds :
            mark_failure(t, "boom", <<"Traceback (most recent call last):", "boom">>)
            /\ UNCHANGED <<wvars, rvars, qvars, svars>>
    \/ close /\ UNCHANGED <<wvars, rvars, qvars, svars>>
    \/ QueueTick
    \/ \E t \in QueueIds \cup {2} : \E timeout \in Timeouts : queue_get_result(t, timeout) /\ UNCHANGED svars
    \/ queue_lookup /\ UNCHANGED svars
    \/ queue_check /\ UNCHANGED svars
    \/ queue_wake /\ UNCHANGED svars

SpecQueue == Init /\ [][NextQueue]_vars

\* SpecPolling: one worker with any of the poll intervals runs on a backend
\* that another holder of the Backend object may close at any time (an
\* in-memory database is then gone and every later reserve raises), while a
\* producer enqueues and the worker is stopped at some point
InitPolling ==
    /\ BackendInit
    /\ WorkerInitWith(PollIntervals)
    /\ \A w \in ActiveWorkers : max_concurrency[w] = 1
    /\ QueueIdle
    /\ SyncIdle
    /\ RetryIdle

PollingOutcomes == {[kind |-> "ok", val |-> "r1"]}

NextPolling ==
    \/ \E t \in QueueIds : enqueue(t, NULL) /\ UNCHANGED <<wvars, rvars, qvars, svars>>
    \/ close /\ UNCHANGED <<wvars, rvars, qvars, svars>>
    \/ WorkerSteps(PollingOutcomes)
    \/ \E w \in ActiveWorkers : polling_loop_exit(w)
    \/ \E w \in ActiveWorkers : stop(w)
    \/ \E w \in ActiveWorkers : stop_gathered(w)
    \/ \E w \in ActiveWorkers : stop_close(w)

SpecPolling == InitPolling /\ [][NextPolling]_vars

\* LiveStop: the runs of SpecPolling in which the event loop keeps running
\* what is ready: start() gets connected, a reserve call returns, a sleep
\* ends, the loop test is made, a callable terminates and its outcome is
\* recorded.  Nothing obliges anybody to call stop().
StopFairness ==
    /\ \A w \in ActiveWorkers :
          /\ WF_vars(start(w))
          /\ WF_vars(start_connected(w))
          /\ WF_vars(polling_loop_spawn(w))
          /\ WF_vars(polling_loop_wake(w))
          /\ WF_vars(polling_loop_exit(w))
    /\ \A t \in TaskIds :
          /\ WF_vars(execute_task_start(t))
          /\ WF_vars(\E out \in PollingOutcomes : execute_task_return(t, out))
          /\ WF_vars(execute_task_mark(t))

LiveStop == InitPolling /\ [][NextPolling]_vars /\ StopFairness

\* SpecDecode: producers store tasks with any payload, for now, and one
\* worker, never stopped, executes what it reserves; a callable returns
InitDecode == InitWorker /\ is_memory

DecodeTick == Advance(DecodeClock) /\ UNCHANGED <<wvars, rvars, qvars, svars>>

NextDecode ==
    \/ \E t \in TaskIds : \E func \in Payloads :
            enqueue_payload(t, func) /\ UNCHANGED <<wvars, rvars, qvars, svars>>
    \/ WorkerSteps(PollingOutcomes)
    \/ DecodeTick

SpecDecode == InitDecode /\ [][NextDecode]_vars

\* LiveMulti: two workers with max_concurrency 1, as in test_multiple_workers,
\* poll the same backend, in-memory or file, and are never stopped, while
\* producers enqueue tasks for now; the clock stands.  The event loop runs
\* every step that is ready, and a mark_* on a file database gets its turn
\* between two reserve transactions.
InitMulti ==
    /\ InitWorker
    /\ max_concurrency = [w \in Workers |-> 1]

NextMulti ==
    \/ \E t \in TaskIds : enqueue(t, NULL) /\ UNCHANGED <<wvars, rvars, qvars, svars>>
    \/ WorkerStepsOf(Workers, LiveOutcomes)

MultiFairness ==
    /\ \A w \in Workers :
          /\ WF_vars(start(w))
          /\ WF_vars(start_connected(w))
          /\ WF_vars(polling_loop_reserve(w))
          /\ WF_vars(polling_loop_spawn(w))
          /\ WF_vars(polling_loop_wake(w))
    /\ \A t \in TaskIds :
          /\ WF_vars(execute_task_start(t))
          /\ WF_vars(\E out \in LiveOutcomes : execute_task_return(t, out))
          /\ SF_vars(execute_task_mark(t))

LiveMulti == InitMulti /\ [][NextMulti]_vars /\ MultiFairness

\* SpecShared: a worker is started and stopped on a backend that a consumer
\* shares with it, as in test_stop_waits_for_in_flight_tasks: a producer
\* enqueues, the consumer calls get_result at any time and sees how it ends
NextShared ==
    \/ \E t \in QueueIds : enqueue(t, NULL) /\ UNCHANGED <<wvars, rvars, qvars, svars>>
    \/ \E t \in QueueIds : backend_get_result(t) /\ UNCHANGED svars
    \/ WorkerSteps(LiveOutcomes)
    \/ \E w \in ActiveWorkers : polling_loop_exit(w)
    \/ \E w \in ActiveWorkers : stop(w)
    \/ \E w \in ActiveWorkers : stop_gathered(w)
    \/ \E w \in ActiveWorkers : stop_close(w)

SpecShared == InitWorker /\ [][NextShared]_vars

\* SpecRetry: one call of a function decorated with retry_async, for every
\* max_attempts up to MaxAttempts, the default list, an empty list and a list
\* of one class as retryable_exceptions, and every behaviour of the function
\* over its first MaxAttempts invocations
RetryableArgs == {NULL, Some({}), Some({"ValueError"})}

InitRetry ==
    /\ BackendInit /\ ~is_memory
    /\ IdleWorkers
    /\ QueueIdle
    /\ SyncIdle
    /\ max_attempts \in 0..MaxAttempts
    /\ retryable_exceptions \in RetryableArgs
    /\ effects \in [1..MaxAttempts -> Effects]
    /\ attempt = 0
    /\ calls = 0
    /\ rpc = "idle"
    /\ rret = NULL

NextRetry ==
    \/ retry_call
    \/ retry_attempt
    \/ retry_wake

SpecRetry == InitRetry /\ [][NextRetry]_vars

\* LiveHiccup: the runs of LiveSpec in which, besides, the recording of an
\* outcome may hit a backend hiccup; the backend works for every other call,
\* and nothing obliges a hiccup to happen
NextHiccup ==
    \/ NextLive
    \/ \E t \in TaskIds : \E again \in BOOLEAN : execute_task_mark_hiccup(t, again)

LiveHiccup == InitLive /\ [][NextHiccup]_vars /\ LiveFairness

\* SpecBarrier: five tasks, enqueued one per tick, whose callables each wait
\* on one shared barrier of BarrierParties parties and then return, and one
\* worker with max_concurrency = BarrierConcurrency on the in-memory backend
\* that is never stopped
BarrierParties == 5
BarrierConcurrency == 2

InitBarrier ==
    /\ clock = BarrierParties - 1
    /\ is_memory = TRUE
    /\ initialized = TRUE
    /\ shared_connection = TRUE
    /\ schema = TRUE
    /\ rows = [t \in AllTaskIds |-> NewRow(UtcNow(t - 1), UtcNow(t - 1))]
    /\ resv = [c \in Workers |-> IdleResv]
    /\ retCount = [t \in AllTaskIds |-> 0]
    /\ everReserved = {}
    /\ observed = NULL
    /\ max_concurrency = [w \in Workers |->
                            IF w \in ActiveWorkers THEN BarrierConcurrency ELSE 1]
    /\ poll_interval = [w \in Workers |-> PollIntervalDefault]
    /\ sleeping = [w \in Workers |-> 0]
    /\ reserved_func = [t \in AllTaskIds |-> ""]
    /\ running = [w \in Workers |-> FALSE]
    /\ shutdown_event = [w \in Workers |-> FALSE]
    /\ pc = [w \in Workers |-> "init"]
    /\ stopPc = [w \in Workers |-> "none"]
    /\ tasks = [w \in Workers |-> {}]
    /\ gathered = [w \in Workers |-> {}]
    /\ semaphore = max_concurrency
    /\ exec = [t \in AllTaskIds |-> "none"]
    /\ wrap = [t \in AllTaskIds |-> "none"]
    /\ outcome = [t \in AllTaskIds |-> NULL]
    /\ owner = [t \in AllTaskIds |-> 0]
    /\ failCall = [t \in AllTaskIds |-> NULL]
    /\ QueueIdle
    /\ SyncIdle
    /\ RetryIdle

\* the callables that have arrived at the barrier
Arrived == {t \in AllTaskIds : exec[t] \in {"running", "marking", "done"}}

\* the barrier lets its parties go once all of them have arrived
BarrierOpen == Cardinality(Arrived) >= BarrierParties

\* the callable passes the barrier and returns its value
barrier_task_return(t) ==
    /\ BarrierOpen
    /\ execute_task_return(t, [kind |-> "ok", val |-> "r1"])

NextBarrier ==
    \/ \E w \in ActiveWorkers : start(w)
    \/ \E w \in ActiveWorkers : start_connected(w)
    \/ \E w \in ActiveWorkers : polling_loop_reserve(w)
    \/ \E w \in ActiveWorkers : polling_loop_spawn(w)
    \/ \E w \in ActiveWorkers : polling_loop_wake(w)
    \/ \E t \in AllTaskIds : execute_task_start(t)
    \/ \E t \in AllTaskIds : barrier_task_return(t)
    \/ \E t \in AllTaskIds : execute_task_mark(t)
    \/ \E t \in AllTaskIds : execute_with_semaphore_acquire(t)
    \/ \E t \in AllTaskIds : execute_with_semaphore_release(t)

\* the event loop runs every ready step of the loop and of the executions
BarrierFairness ==
    /\ \A w \in ActiveWorkers :
          /\ WF_vars(start(w))
          /\ WF_vars(start_connected(w))
          /\ WF_vars(polling_loop_reserve(w))
          /\ WF_vars(polling_loop_spawn(w))
          /\ WF_vars(polling_loop_wake(w))
    /\ \A t \in AllTaskIds :
          /\ WF_vars(execute_task_start(t))
          /\ WF_vars(barrier_task_return(t))
          /\ WF_vars(execute_task_mark(t))

SpecBarrier == InitBarrier /\ [][NextBarrier]_vars /\ BarrierFairness

\* SpecProducer: a producer calls TaskQueue.enqueue and TaskQueue.get_result
\* with arguments of every kind, one call after the other, while the clock
\* advances and the backend may be closed
ProducerTick == Advance(ProducerClock) /\ UNCHANGED <<wvars, rvars, qvars, svars>>

NextProducer ==
    \/ \E f \in Funcs : \E eta \in ProducerEtas : queue_enqueue(f, eta) /\ UNCHANGED svars
    \/ \E t \in TaskIds : queue_enqueue_persist(t) /\ UNCHANGED svars
    \/ \E a \in {IdNone, IdEmpty} \cup {IdOf(t) : t \in TaskIds} :
          \E timeout \in TimeoutArgs : queue_get_result_call(a, timeout) /\ UNCHANGED svars
    \/ queue_lookup /\ UNCHANGED svars
    \/ queue_check /\ UNCHANGED svars
    \/ queue_wake /\ UNCHANGED svars
    \/ close /\ UNCHANGED <<wvars, rvars, qvars, svars>>
    \/ ProducerTick

SpecProducer == Init /\ [][NextProducer]_vars

\* SpecSync: a synchronous caller uses one SyncTaskQueue, entering and
\* leaving its scope and calling enqueue, get_result and close in any order
\* and state, while a consumer of the same backend finalizes the task
SyncReturnValues == {"r1", "None"}
SyncEtas == {NULL, Some(NaiveDT(0))}
SyncTick == Advance(SyncClock) /\ UNCHANGED <<wvars, rvars, qvars, svars>>

NextSync ==
    \/ \E inLoop \in BOOLEAN : sync_enter(inLoop)
    \/ \E b \in BOOLEAN : \E cr \in BOOLEAN : sync_exit(b, cr)
    \/ \E cr \in BOOLEAN : sync_close(cr)
    \/ \E f \in Funcs : \E eta \in SyncEtas : sync_enqueue(f, eta)
    \/ \E t \in QueueIds : queue_enqueue_persist(t) /\ UNCHANGED svars
    \/ sync_enqueue_return
    \/ \E a \in {IdEmpty} \cup {IdOf(t) : t \in QueueIds} :
          \E timeout \in {NULL, Some(-1)} : sync_get_result(a, timeout)
    \/ queue_lookup /\ UNCHANGED svars
    \/ queue_check /\ UNCHANGED svars
    \/ queue_wake /\ UNCHANGED svars
    \/ sync_get_result_return
    \/ \E t \in QueueIds : \E v \in SyncReturnValues :
          mark_success(t, serialize_result(v)) /\ UNCHANGED <<wvars, rvars, qvars, svars>>
    \/ \E t \in QueueIds :
          mark_failure(t, "boom", <<"Traceback (most recent call last):", "boom">>)
          /\ UNCHANGED <<wvars, rvars, qvars, svars>>
    \/ SyncTick

SpecSync == Init /\ [][NextSync]_vars

\* SpecEnter: the runs of SpecSync in which the connect of an enter-scope
\* may also fail or time out
NextEnter ==
    \/ NextSync
    \/ \E how \in EnterFailures : sync_enter_fails(how)

SpecEnter == Init /\ [][NextEnter]_vars

\* ----------------------------------------------------------------- claims
Terminal(r) == r.status \in {"completed", "failed"}
StatusRank(st) == IF st = "pending" THEN 0 ELSE IF st = "reserved" THEN 1 ELSE 2

\* C1: no task id is returned by more than one reserve call.  Counting, for
\* each id, the reserve calls that have returned it and the calls in progress
\* that hold it, the count never exceeds one: results of concurrent calls are
\* pairwise disjoint and a task returned once is never returned again, also
\* after mark_success / mark_failure.
C1_ReservationExclusive ==
    \A t \in TaskIds :
        retCount[t] + Cardinality({c \in Workers : t \in resv[c].ids}) <= 1

\* two reserve calls in progress at once, each holding a task, while a task
\* returned earlier is already finalized or both hold fresh ones
C1_Witness ==
    \E c \in Workers : \E d \in Workers \ {c} :
        /\ resv[c].st = "done" /\ resv[c].ids # {}
        /\ resv[d].st = "done" /\ resv[d].ids # {}

\* a reserve call that ran after a task it could have seen was returned and
\* finalized
C1_WitnessLater ==
    \E t \in DOMAIN rows : \E c \in Workers :
        /\ retCount[t] = 1 /\ Terminal(rows[t])
        /\ resv[c].st = "done" /\ resv[c].ids # {}

\* C3 (as claimed): a row's status only moves pending -> reserved ->
\* (success | failed): no step lowers it, and a step that makes it success or
\* failed starts from reserved.
C3_StatusMonotone ==
    [][\A t \in DOMAIN rows \cap DOMAIN rows' :
          /\ StatusRank(rows'[t].status) >= StatusRank(rows[t].status)
          /\ (Terminal(rows'[t]) /\ ~Terminal(rows[t]))
                => rows[t].status = "reserved"]_vars

\* C4 (as claimed): once get_result has returned a terminal Result for an id,
\* a get_result call on that id returns the same status and value / error in
\* every later state in which the table is still there.
C4_TerminalStable ==
    (observed # NULL /\ SchemaAfterOpen) =>
        LET r == ResultOf(rows, observed[1].task_id)
        IN r # NULL /\ Seen(r[1]) = observed[1]

\* C5 (as claimed): reserve(max_items, now) never returns a task while now is
\* an earlier instant than the task's available_at.
C5_EligibilityHonored ==
    \A c \in Workers :
        resv[c].st = "done" =>
            \A t \in resv[c].ids :
                Instant(FromIso(rows[t].available_at)) <= Instant(resv[c].now[1])

\* C9 (as claimed): in every row the result value is set only with status
\* success, the error message only with status failed, and a success or failed
\* row has finished_at set.
C9_RowShape ==
    \A t \in DOMAIN rows :
        /\ rows[t].result_data # NULL => rows[t].status = "completed"
        /\ rows[t].error_message # NULL => rows[t].status = "failed"
        /\ Terminal(rows[t]) => rows[t].completed_at # NULL

\* the order the claim speaks of: earlier available_at, ties by earlier
\* created_at, as instants
EarlierThan(a, b) ==
    \/ Instant(FromIso(a.available_at)) < Instant(FromIso(b.available_at))
    \/ /\ Instant(FromIso(a.available_at)) = Instant(FromIso(b.available_at))
       /\ Instant(FromIso(a.created_at)) < Instant(FromIso(b.created_at))

\* C10 (as claimed): after reserve has selected its rows, no task left pending
\* and eligible at now is earlier, by (available_at, created_at), than a task
\* the call returned.
C10_EarliestFirst ==
    \A c \in Workers :
        resv[c].st = "done" =>
            \A s \in resv[c].ids : \A u \in DOMAIN rows :
                (/\ rows[u].status = "pending"
                 /\ Instant(FromIso(rows[u].available_at)) <= Instant(resv[c].now[1]))
                    => ~EarlierThan(rows[u], rows[s])

\* the callables of worker w that have started and not yet returned
Executing(w) == {t \in AllTaskIds : owner[t] = w /\ exec[t] = "running"}

\* C2 (as claimed): at every instant the number of callables of one worker
\* that have started and not yet returned is at most its max_concurrency.
C2_ConcurrencyBound ==
    \A w \in Workers : Cardinality(Executing(w)) <= max_concurrency[w]

\* C6 (as claimed): when stop() has returned on a running worker, every task
\* a reserve call of that worker returned has finished executing and its row
\* has status success or failed.
C6_StopDrains ==
    \A w \in Workers :
        stopPc[w] = "returned" =>
            \A t \in TaskIds :
                owner[t] = w =>
                    /\ exec[t] = "done"
                    /\ t \in DOMAIN rows
                    /\ Terminal(rows[t])

\* C7 (as claimed): when the callable of a reserved task has raised e, the
\* step that ends its execution calls mark_failure with error = str(e) and a
\* non-empty traceback, and leaves the row with status failed.
C7_FailureRecorded ==
    [][\A t \in TaskIds :
          (/\ exec[t] = "marking"
           /\ outcome[t][1].kind = "exc"
           /\ exec'[t] = "done")
              => /\ failCall'[t] # NULL
                 /\ failCall'[t][1].error = Str(outcome[t][1].val)
                 /\ Len(failCall'[t][1].traceback) > 0
                 /\ t \in DOMAIN rows'
                 /\ rows'[t].status = "failed"
                 /\ rows'[t].error_message = Some(Str(outcome[t][1].val))]_vars

\* the callable of some task has raised
SomeRaised == \E u \in TaskIds : outcome[u] # NULL /\ outcome[u][1].kind = "exc"

\* C8: once a callable has raised, every task that is pending is still
\* eventually brought to a terminal status by the same worker, and the
\* polling loop of the worker is still alive.
C8_KeepsPolling ==
    /\ \A t \in TaskIds :
          (SomeRaised /\ t \in DOMAIN rows /\ rows[t].status = "pending")
              ~> (t \in DOMAIN rows /\ Terminal(rows[t]))
    /\ [](SomeRaised =>
            \A w \in ActiveWorkers : pc[w] \in {"poll", "reserving", "sleep", "backoff"})

\* a task was reserved strictly after another task's failure was recorded,
\* and has reached a terminal status
C8_Witness ==
    \E u \in DOMAIN rows : \E t \in DOMAIN rows :
        /\ u # t
        /\ outcome[u] # NULL /\ outcome[u][1].kind = "exc"
        /\ rows[u].status = "failed"
        /\ Terminal(rows[t])
        /\ rows[t].started_at # NULL
        /\ Instant(FromIso(rows[t].started_at[1]))
              > Instant(FromIso(rows[u].completed_at[1]))

\* the rows that are pending and whose available_at is, as an instant, not
\* after now
InstantEligible(rws, now) ==
    {t \in DOMAIN rws :
        /\ rws[t].status = "pending"
        /\ Instant(FromIso(rws[t].available_at)) <= Instant(now)}

\* C11 (as claimed): a reserve(max_items, now) that returns selects exactly
\* min(max_items, E) rows, E the number of pending rows with available_at <=
\* now; exactly those rows become reserved with started_at = now and every
\* other row is unchanged.
C11_ReserveExact ==
    [][\A c \in Workers :
          (resv[c].st = "idle" /\ resv'[c].st = "done")
              => LET now == resv'[c].now[1]
                     S == resv'[c].ids
                     E == InstantEligible(rows, now)
                 IN /\ S \subseteq E
                    /\ Cardinality(S) = Min(resv'[c].n, Cardinality(E))
                    /\ DOMAIN rows' = DOMAIN rows
                    /\ \A t \in DOMAIN rows :
                          rows'[t] = IF t \in S
                                     THEN [rows[t] EXCEPT
                                              !.status = "reserved",
                                              !.started_at = Some(IsoFormat(now))]
                                     ELSE rows[t]]_vars

\* C13 (as claimed): mark_success on a row that is already success or failed
\* is rejected and leaves the row as it is, so no step takes a terminal row
\* to a different row of status success.
C13_MarkSuccessRejected ==
    [][\A t \in DOMAIN rows :
          (Terminal(rows[t]) /\ t \in DOMAIN rows' /\ rows'[t].status = "completed")
              => rows'[t] = rows[t]]_vars

C14_DuplicateRejected ==
    [][(/\ bret' # bret
        /\ bret'[1].op = "enqueue"
        /\ bret'[1].task_id \in DOMAIN rows)
          => /\ bret'[1].outcome.kind = "raise"
             /\ bret'[1].outcome.cls = "BackendError"
             /\ bret'[1].outcome.operation = "enqueue"
             /\ rows' = rows]_vars

\* the tasks worker w has reserved and not yet finalized
HeldReserved(w) ==
    {t \in DOMAIN rows : owner[t] = w /\ rows[t].status = "reserved"}

\* C16 (as claimed): the polling loop issues a reserve only while fewer than
\* max_concurrency executions are in flight and asks for at most
\* max_concurrency - |in flight| items, so a worker never holds more than
\* max_concurrency tasks in status reserved.
C16_ReserveWithinFree ==
    /\ [][\A w \in Workers :
            (pc[w] = "poll" /\ pc'[w] = "reserving")
                => /\ Cardinality(tasks[w]) < max_concurrency[w]
                   /\ resv'[w].n <= max_concurrency[w] - Cardinality(tasks[w])]_vars
    /\ [](\A w \in Workers : Cardinality(HeldReserved(w)) <= max_concurrency[w])

\* a get_result call with a positive timeout has ended without having seen a
\* terminal row (and without a backend error)
EndedOnTimeout ==
    /\ qpc = "done"
    /\ qcall[1].timeout # NULL
    /\ qcall[1].timeout[1] > 0
    /\ qresult = NULL
    /\ qret[1].kind = "raise" => qret[1].context = "TimeoutError"

\* C17 (as claimed): TaskQueue.get_result with timeout > 0 that ends without
\* a terminal row raises TimeoutError itself.
C17_TimeoutErrorRaised ==
    EndedOnTimeout => (qret[1].kind = "raise" /\ qret[1].cls = "TimeoutError")

\* C18 (as claimed): TaskQueue.get_result with timeout = 0 returns what its
\* one lookup found, a terminal Result or null, and never sleeps.
C18_ZeroTimeoutImmediate ==
    (qcall # NULL /\ qcall[1].timeout = Some(0)) =>
        /\ qpc # "sleep"
        /\ (qpc = "done" /\ qret[1].kind = "return") => qret[1].val = qresult

\* C19 (as claimed): TaskQueue.get_result with timeout > 0 that ends without
\* a terminal row returns null and raises nothing.
C19_TimeoutReturnsNull ==
    EndedOnTimeout => qret[1] = Returned(NULL)

\* C20 (as claimed): a success Result returned by TaskQueue.get_result
\* carries the value the codec decodes from the stored bytes, not the bytes.
C20_ValueDecoded ==
    (/\ qpc = "done"
     /\ qret[1].kind = "return"
     /\ qret[1].val # NULL
     /\ qret[1].val[1].status = "success")
        => /\ qret[1].val[1].value[1] \notin Values
           /\ qret[1].val[1].value[1] = deserialize_result(qresult[1].value[1])

\* C15 (as claimed): with five enqueued tasks whose callables wait on one
\* shared five-party barrier and one worker with max_concurrency = 2, the
\* number of tasks inside the callable never exceeds 2, reaches 2, and all
\* five tasks eventually have the stored status of success.
C15_PeakTwoAllSucceed ==
    /\ [](\A w \in ActiveWorkers :
            Cardinality(Executing(w)) <= BarrierConcurrency)
    /\ <>(\E w \in ActiveWorkers :
            Cardinality(Executing(w)) = BarrierConcurrency)
    /\ <>(\A t \in AllTaskIds :
            t \in DOMAIN rows /\ rows[t].status = "completed")

\* the part of C15 the worker does deliver: every one of the five callables
\* is inside the callable at once, and then all five succeed
C15_AllInsideAllSucceed ==
    /\ <>(\E w \in ActiveWorkers :
            Cardinality(Executing(w)) = BarrierParties)
    /\ <>[](\A t \in AllTaskIds :
            t \in DOMAIN rows /\ rows[t].status = "completed")

\* no callable passes the barrier while fewer than all parties are inside
C15_BarrierHolds ==
    (\E t \in AllTaskIds : exec[t] \in {"marking", "done"}) => BarrierOpen

\* a producer call begins in this step
CallBegins == qpc \in {"idle", "done"} /\ <<qpc, qcall, qret>>' # <<qpc, qcall, qret>>

\* the arguments of the call that begins are bad: a func that is not
\* callable or an eta without timezone; an empty task id or a negative timeout
BadArguments(call) ==
    IF call.op = "enqueue"
    THEN \/ ~Callable(call.func)
         \/ call.eta # NULL /\ ~TzAware(call.eta[1])
    ELSE \/ call.arg.type = "str" /\ call.arg.len = 0
         \/ call.timeout # NULL /\ call.timeout[1] < 0

C22_FailuresWrapped ==
    (/\ qpc = "done"
     /\ qcall[1].op = "enqueue"
     /\ qret[1].kind = "raise"
     /\ qret[1].cls # "ValidationError")
        => /\ qret[1].cls = "TaskQueueError"
           /\ qret[1].task_id # NULL
           /\ qret[1].cause # ""
           /\ qret[1].val = NULL

\* C23 (as claimed): every persisted row has available_at >= created_at.
C23_AvailableNotBeforeCreated ==
    \A t \in DOMAIN rows :
        Instant(FromIso(rows[t].available_at)) >= Instant(FromIso(rows[t].created_at))

\* a call of the facade begins in this step
SyncCallBegins == spc \in {"idle", "done"} /\ <<spc, scall, sret>>' # <<spc, scall, sret>>

C26_SameException ==
    (/\ spc = "done"
     /\ scall[1].op = "enqueue"
     /\ scall[1].was
     /\ sret[1].cls # "ValidationError"
     /\ qret[1].kind = "raise")
        => /\ sret[1].kind = "raise"
           /\ sret[1].cls = qret[1].cls
           /\ sret[1].val = NULL

\* C26 (amended): it reaches the caller as a SyncTaskQueueError of operation
\* enqueue whose cause is that exception, and no task id is returned.
C26_WrappedException ==
    (/\ spc = "done"
     /\ scall[1].op = "enqueue"
     /\ scall[1].was
     /\ sret[1].cls # "ValidationError"
     /\ qret[1].kind = "raise")
        => /\ sret[1].kind = "raise"
           /\ sret[1].cls = "SyncTaskQueueError"
           /\ sret[1].operation = "enqueue"
           /\ sret[1].cause = qret[1].cls
           /\ sret[1].val = NULL

\* an enqueue through the facade failed in the codec
C26_Witness ==
    /\ spc = "done"
    /\ scall[1].op = "enqueue"
    /\ sret[1].cls = "SyncTaskQueueError"
    /\ sret[1].cause = "SerializationError"

\* C27 (as claimed): an exit-scope on a started facade, whether the body
\* raised or not and also when the close raises, tells the loop to stop,
\* joins the thread and leaves the facade not started.
C27_ExitReleases ==
    [][(/\ SyncCallBegins
        /\ scall'[1].op = "exit"
        /\ started)
          => /\ loop' = "stopped"
             /\ thread' = "joined"
             /\ started' = FALSE]_vars

\* C28: on a facade that is not started, enqueue and get_result raise
\* RuntimeError and touch neither the backend nor the TaskQueue, and close()
\* changes nothing and raises nothing; an enter on a started facade raises
\* RuntimeError and leaves the facade as it is.
C28_StateGuards ==
    [][SyncCallBegins =>
          /\ (scall'[1].op \in {"enqueue", "get_result"} /\ ~started) =>
                /\ sret'[1].kind = "raise"
                /\ sret'[1].cls = "RuntimeError"
                /\ spc' = "done"
                /\ <<bvars, qvars>>' = <<bvars, qvars>>
                /\ <<started, loop, thread>>' = <<started, loop, thread>>
          /\ (scall'[1].op = "close" /\ ~started) =>
                /\ sret'[1].kind = "return"
                /\ <<bvars, qvars>>' = <<bvars, qvars>>
                /\ <<started, loop, thread>>' = <<started, loop, thread>>
          /\ (scall'[1].op = "enter" /\ started) =>
                /\ sret'[1].kind = "raise"
                /\ sret'[1].cls = "RuntimeError"
                /\ <<bvars, qvars>>' = <<bvars, qvars>>
                /\ <<started, loop, thread>>' = <<TRUE, "running", "alive">>]_vars

\* after a scope was left, an enqueue was refused although tasks are stored
C28_Witness ==
    /\ spc = "done"
    /\ scall[1].op = "enqueue"
    /\ ~scall[1].was
    /\ sret[1].cls = "RuntimeError"
    /\ thread = "joined"
    /\ DOMAIN rows # {}

\* C29: SQLiteBackend.connect() and close() are idempotent (a second call in
\* a row changes nothing), and after any sequence of connect() and close()
\* calls that ends with connect() the tasks schema is there for the next
\* operation, so that an enqueue or get_result issued then does not fail on a
\* missing table, for file databases and for the in-memory database alike
MissingTable(out) ==
    /\ out.kind = "raise"
    /\ "OperationalError" \in {out.cause, out.context}

C29_ConnectMakesReady ==
    [][bret' # bret =>
         /\ (bret # NULL /\ bret[1].op = bret'[1].op /\ bret'[1].op \in {"connect", "close"})
               => UNCHANGED bvars
         /\ bret'[1].op = "connect" => SchemaAfterOpen'
         /\ (bret # NULL /\ bret[1].op = "connect"
                 /\ bret'[1].op \in {"enqueue", "get_result"})
               => ~MissingTable(bret'[1].outcome)]_vars

\* the same for file databases only
C29_FileConnectMakesReady ==
    [][(bret' # bret /\ ~is_memory) =>
         /\ (bret # NULL /\ bret[1].op = bret'[1].op /\ bret'[1].op \in {"connect", "close"})
               => UNCHANGED bvars
         /\ bret'[1].op = "connect" => SchemaAfterOpen'
         /\ (bret # NULL /\ bret[1].op = "connect"
                 /\ bret'[1].op \in {"enqueue", "get_result"})
               => ~MissingTable(bret'[1].outcome)]_vars

\* C30: an error raised by Backend.reserve inside the polling loop never ends
\* the loop and never leaves start(): the worker stays running, sleeps a
\* back-off of at most poll_interval and then tests the shutdown signal and
\* polls again, however many reserve calls in a row fail, until stop() is
\* observed
C30_ReserveErrorBackOff ==
    [][\A w \in ActiveWorkers :
         /\ (pc[w] = "reserving" /\ resv[w].st = "err" /\ pc'[w] # pc[w])
               => /\ pc'[w] = "backoff"
                  /\ running'[w]
                  /\ sleeping'[w] > 0
                  /\ sleeping'[w] <= poll_interval[w]
         /\ (pc[w] = "backoff" /\ pc'[w] # pc[w])
               => pc'[w] = "poll" /\ running'[w]
         /\ (pc[w] = "poll" /\ pc'[w] = "stopped") => shutdown_event[w]]_vars

\* the loop is backing off after a failed reserve, on a worker whose poll
\* interval is shorter than a second, that nobody has asked to stop
C30_Witness ==
    \E w \in ActiveWorkers :
        /\ pc[w] = "backoff"
        /\ running[w]
        /\ ~shutdown_event[w]
        /\ poll_interval[w] < TicksPerSecond
        /\ sleeping[w] = poll_interval[w]

\* C31: after stop() is called on a worker whose polling loop is running,
\* start() eventually returns with the running flag false; the loop starts no
\* reserve call once the shutdown signal is set, so it ends after at most the
\* reserve call or the sleep in progress
C31_StopEndsStart ==
    /\ \A w \in ActiveWorkers :
          (shutdown_event[w] /\ running[w]) ~> (pc[w] = "stopped" /\ ~running[w])
    /\ [][\A w \in ActiveWorkers :
             /\ (shutdown_event[w] /\ pc[w] = "poll" /\ pc'[w] # pc[w])
                   => pc'[w] = "stopped"
             /\ pc[w] = "stopped" => (pc'[w] = "stopped" /\ ~running'[w])]_vars

\* stop() found the worker running and has returned, and start() has
\* returned
C31_Witness ==
    \E w \in ActiveWorkers :
        /\ pc[w] = "stopped"
        /\ ~running[w]
        /\ stopPc[w] = "returned"
        /\ sleeping[w] = 0

\* C32: when the payload of a reserved task does not decode into a valid
\* envelope (corrupt bytes, not a mapping, missing func/args/kwargs) or its
\* func is not callable, the worker invokes nothing for that task, and the
\* execution ends with the task in status failed with the error message of
\* the decode or validation error; the polling loop is not affected
BadPayload(t) == reserved_func[t] \in Payloads \ {ValidEnvelope}

C33_OnceAcrossWorkers ==
    /\ [](\A t \in TaskIds : retCount[t] <= 1)
    /\ [][\A t \in TaskIds :
             /\ (exec'[t] = "created" /\ exec[t] # "created") => exec[t] = "none"
             /\ (exec'[t] = "running" /\ exec[t] # "running") => exec[t] = "created"]_vars
    /\ \A t \in TaskIds :
          (t \in DOMAIN rows /\ rows[t].status = "pending")
              ~> (t \in DOMAIN rows /\ Terminal(rows[t]))

\* both workers are polling and each has executed one of the two tasks
C33_Witness ==
    /\ \A w \in Workers : pc[w] \in {"poll", "reserving", "sleep"}
    /\ \A t \in TaskIds : t \in DOMAIN rows /\ Terminal(rows[t]) /\ exec[t] = "done"
    /\ owner[1] # owner[2]

\* C34: after Worker.stop() has returned, a caller that shares the worker's
\* backend can still use it: get_result on a task the worker finished returns
\* the terminal result of that task, on the in-memory backend and on file
\* backends
FinishedByStopped(t) ==
    /\ exec[t] = "done"
    /\ owner[t] \in ActiveWorkers
    /\ stopPc[owner[t]] = "returned"

C34_ResultAfterStop ==
    [][\A t \in QueueIds :
         (bret' # bret /\ bret'[1].op = "get_result" /\ bret'[1].task_id = t
             /\ FinishedByStopped(t))
           => /\ bret'[1].outcome.kind = "return"
              /\ bret'[1].outcome.val # NULL
              /\ bret'[1].outcome.val[1].status \in {"success", "failed"}]_vars

\* the same on file backends only
C34_FileResultAfterStop ==
    [][\A t \in QueueIds :
         (bret' # bret /\ bret'[1].op = "get_result" /\ bret'[1].task_id = t
             /\ FinishedByStopped(t) /\ ~is_memory)
           => /\ bret'[1].outcome.kind = "return"
              /\ bret'[1].outcome.val # NULL
              /\ bret'[1].outcome.val[1].status \in {"success", "failed"}]_vars

\* C35: a call wrapped by retry_async(max_attempts = n), n >= 1, invokes the
\* function until an invocation returns, raises an exception that is not
\* retryable, or was the n-th one: it returns after exactly 1 invocation when
\* the first succeeds, returns after exactly k when invocations 1..k-1 raise
\* retryable exceptions and the k-th (k <= n) succeeds, raises after exactly
\* n when all n raise retryable exceptions, and raises after exactly 1 (in
\* general, after the first such invocation) on a non-retryable exception
Settles(i) ==
    \/ i = max_attempts
    \/ effects[i] = "return"
    \/ ~IsRetryable(effects[i], retryable_exceptions)

\* the number of invocations the contract asks for
ExpectedCalls == CHOOSE k \in 1..max_attempts :
                    Settles(k) /\ \A i \in 1..(k - 1) : ~Settles(i)

C35_RetryCounts ==
    (rpc = "done" /\ max_attempts >= 1)
        => /\ calls = ExpectedCalls
           /\ rret = Some(IF effects[ExpectedCalls] = "return"
                          THEN [kind |-> "return", cls |-> ""]
                          ELSE [kind |-> "raise", cls |-> effects[ExpectedCalls]])

\* with max_attempts = 3 the call returned at the third invocation, after two
\* retryable exceptions
C35_Witness ==
    /\ rpc = "done"
    /\ max_attempts = 3
    /\ calls = 3
    /\ rret # NULL /\ rret[1].kind = "return"
    /\ IsRetryable(effects[1], retryable_exceptions)
    /\ IsRetryable(effects[2], retryable_exceptions)

\* C36: with its default retryable_exceptions, retry_async treats the
\* library's own ConnectionError as retryable: a decorated call that raises it
\* is invoked again until it succeeds or max_attempts invocations were made
C36_LibraryConnectionErrorRetried ==
    (rpc = "done" /\ max_attempts >= 1 /\ retryable_exceptions = NULL)
        => LET upTo == IF \E i \in 1..max_attempts :
                              effects[i] # "sitq.exceptions.ConnectionError"
                       THEN CHOOSE k \in 1..max_attempts :
                              /\ effects[k] # "sitq.exceptions.ConnectionError"
                              /\ \A i \in 1..(k - 1) :
                                    effects[i] = "sitq.exceptions.ConnectionError"
                       ELSE max_attempts
           IN calls >= upTo

\* C37: when a mark_success or mark_failure call raises a transient backend
\* error while the worker finalizes a task, the task does not stay in status
\* reserved forever: the outcome is recorded again, so every reserved task
\* eventually reaches a terminal status once the backend works again
C37_RecordedAfterHiccup ==
    \A t \in TaskIds :
        (t \in DOMAIN rows /\ rows[t].status = "reserved")
            ~> (t \in DOMAIN rows /\ Terminal(rows[t]))


\* the wrappers of worker w that are inside "async with self._semaphore"
Holders(w) == {t \in AllTaskIds : owner[t] = w /\ wrap[t] = "holding"}

\* worker w has reserved tasks, and each of them has finished: its execution
\* is done and its wrapper has left the semaphore block or skipped the task
Quiescent(w) ==
    /\ \E t \in AllTaskIds : owner[t] = w
    /\ \A t \in AllTaskIds :
          owner[t] = w => exec[t] = "done" /\ wrap[t] \in {"finished", "skipped"}

C38_WitnessSuccess ==
    \E w \in Workers :
        /\ Quiescent(w)
        /\ \E t \in AllTaskIds :
              /\ owner[t] = w
              /\ wrap[t] = "finished"
              /\ outcome[t] # NULL
              /\ outcome[t][1].kind = "ok"

\* C39 (as claimed): a stop() call is never lost: whenever stop() has been
\* called on a worker, also before start() has set the running flag, start()
\* eventually returns.
C39_StopNotLost ==
    \A w \in ActiveWorkers : (stopPc[w] # "none") ~> (pc[w] = "stopped")

\* the same for the stop() calls that find the running flag set
C39_StopOfRunningNotLost ==
    \A w \in ActiveWorkers :
        (stopPc[w] \notin {"none", "noop"}) ~> (pc[w] = "stopped")

\* the enter-scope that begins in this step ends with the error of a failed
\* or timed-out connect
EnterConnectFails ==
    /\ SyncCallBegins
    /\ scall'[1].op = "enter"
    /\ sret'[1].kind = "raise"
    /\ sret'[1].cls \in {"ConnectionError", "TimeoutError"}

\* C40 (as claimed): when the connect of an enter-scope fails or times out,
\* the loop and the thread that enter-scope started are stopped before the
\* error reaches the caller, and the facade is left not started.
C40_FailedEnterCleansUp ==
    [][EnterConnectFails
          => /\ loop' # "running"
             /\ thread' # "alive"
             /\ started' = FALSE]_vars

\* the part of it that the code keeps: the facade is left not started, so
\* that a later enter-scope is not refused
C40_FailedEnterNotStarted ==
    [][EnterConnectFails => started' = FALSE]_vars

====
